---- MODULE Spec2Model ----
(***************************************************************************)
(* Model of the transactional resilience code of karu-kits:                *)
(*   transactor.SQLTransactor.Atomically, kpgx.DB.RunInTx,                 *)
(*   kdbx WithTransaction / WithTransactionOptions / withRetry,            *)
(*   dbx DB.WithTx / DB.WithPgxTx / retryableOperation,                    *)
(*   dbx CircuitBreaker, the two backoff functions,                        *)
(*   kdbx HealthChecker.Check / CheckWithCustomChecks / CheckDetailed,     *)
(*   dbx DB.Health, the kdbx savepoint functions and NestedTransaction     *)
(*   over the pgx and database/sql Tx adapters, kdbx WrapError and dbx     *)
(*   wrapDBError, and kdbx Shutdown / Close.                               *)
(***************************************************************************)
EXTENDS Integers, Sequences, FiniteSets, TLC

VARIABLES
    stack,      \* call frames of the transaction helpers, innermost last
    txs,        \* every driver transaction begun so far
    signal,     \* "run", or the panic value unwinding through the user fn
    result,     \* outcome of the top-level helper call
    fnCalls,    \* number of invocations of the user fn
    attempts,   \* how each attempt of the top-level retry loop ended
    ctxDone,    \* state of the caller's context: live, canceled, deadline
    cfgRetry,   \* shared Config.RetryAttempts (kdbx) / Config.MaxRetries (dbx)
    call,       \* the top-level call made: helper and retry budget
    raised,     \* the first panic fn raised, and fnCalls at that moment
    cb,         \* the CircuitBreaker object
    cbLog,      \* observation of the last Execute/Reset call on the breaker
    now,        \* wall clock read by time.Now / time.Since
    g,          \* goroutines executing CircuitBreaker.Execute concurrently
    bk,         \* inputs and result of a backoff computation
    hc,         \* the HealthChecker, its HealthCheck objects and its callers
    probe,      \* inputs and result of an uncached health evaluation
    sp,         \* a transaction handed to the savepoint functions
    ev,         \* an error and the results of classifying it
    sd          \* a database being shut down: Shutdown, its goroutine, closeOnce

vars == <<stack, txs, signal, result, fnCalls, attempts, ctxDone, cfgRetry, call, raised,
          cb, cbLog, now, g, bk, hc, probe, sp, ev, sd>>

----------------------------------------------------------------------------
(* Bounds *)

MaxDepth == 2        \* helper calls nested inside one another
MaxRetryCfg == 3     \* largest configured retry budget
MaxTime == 4         \* clock ticks
MaxFailuresBound == 3 \* largest maxFailures a breaker is built with
MaxTimeoutBound == 2 \* largest resetTimeout a breaker is built with
NumGoroutines == 2   \* goroutines calling Execute concurrently
MaxConcCalls == 2    \* Execute calls made by each goroutine
MaxAttemptArg == 4   \* largest attempt number given to a backoff function
MaxBackoffUnits == 4 \* largest backoff duration, in units of BackoffUnit
JitterSteps == 5     \* resolution of the random source

----------------------------------------------------------------------------
(* Errors: an error is the chain errors.Unwrap walks, outermost first;     *)
(* nil is the empty chain.                                                 *)

Nil == << >>

Leaf(t, code, msg) == << [t |-> t, code |-> code, msg |-> msg] >>

CtxCanceled == Leaf("canceled", "", "context canceled")
CtxDeadline == Leaf("deadline", "", "context deadline exceeded")
PgError(code, msg) == Leaf("pg", code, msg)
MySQLError(code, msg) == Leaf("mysql", code, msg)
PlainError(msg) == Leaf("plain", "", msg)
ErrTxClosed == Leaf("txclosed", "", "tx is closed")

\* errors.Is(err, target) for a sentinel of layer type t
ErrIs(err, t) == \E i \in 1..Len(err) : err[i].t = t

\* errors.As(err, &target): the outermost layer of type t
ErrAs(err, t) ==
    LET idx == {i \in 1..Len(err) : err[i].t = t}
    IN  IF idx = {} THEN 0 ELSE CHOOSE i \in idx : \A j \in idx : i <= j

\* kerrors.Wrap
Wrap(err, code, msg) ==
    IF err = Nil THEN Nil
    ELSE << [t |-> "kerr", code |-> code, msg |-> msg] >> \o err

\* fmt.Errorf("...: %w", err)
FmtWrap(err, msg) == << [t |-> "fmt", code |-> "", msg |-> msg] >> \o err

\* kerrors.GetCode
GetCode(err) ==
    IF ErrAs(err, "kerr") = 0 THEN "INTERNAL_ERROR"
    ELSE err[ErrAs(err, "kerr")].code

classifyPostgresError(err) ==
    IF ErrAs(err, "pg") = 0 THEN ""
    ELSE LET c == err[ErrAs(err, "pg")].code IN
         CASE c = "23000" -> "DATABASE_ERROR"
           [] c \in {"23001", "23502", "23503", "23514", "23P01"} -> "INVALID_ARGUMENT"
           [] c = "23505" -> "ALREADY_EXISTS"
           [] c \in {"40001", "40P01"} -> "CONFLICT"
           [] c = "42501" -> "PERMISSION_DENIED"
           [] c \in {"42601", "42701", "42702", "42703", "42P02"} -> "INVALID_ARGUMENT"
           [] c = "42P01" -> "NOT_FOUND"
           [] c \in {"53000", "53100", "53200", "53300"} -> "UNAVAILABLE"
           [] c \in {"54000", "54001", "54011", "54023"} -> "INVALID_ARGUMENT"
           [] c \in {"57000", "57P01", "57P02", "57P03"} -> "UNAVAILABLE"
           [] c = "57014" -> "CANCELLED"
           [] c = "58000" -> "INTERNAL_ERROR"
           [] c = "58030" -> "UNAVAILABLE"
           [] c = "58P01" -> "NOT_FOUND"
           [] c = "58P02" -> "ALREADY_EXISTS"
           [] OTHER -> "DATABASE_ERROR"

classifyMySQLError(err) ==
    IF ErrAs(err, "mysql") = 0 THEN ""
    ELSE LET c == err[ErrAs(err, "mysql")].code IN
         CASE c \in {"1040", "1042", "1043", "1037", "1041"} -> "UNAVAILABLE"
           [] c \in {"1044", "1142", "1143"} -> "PERMISSION_DENIED"
           [] c = "1045" -> "UNAUTHENTICATED"
           [] c \in {"1049", "1051", "1030"} -> "NOT_FOUND"
           [] c \in {"1050", "1062"} -> "ALREADY_EXISTS"
           [] c \in {"1054", "1060", "1061", "1064",
                     "1216", "1217", "1451", "1452"} -> "INVALID_ARGUMENT"
           [] c \in {"1205", "1159", "1160"} -> "TIMEOUT"
           [] c = "1213" -> "CONFLICT"
           [] OTHER -> "DATABASE_ERROR"

\* kdbx.WrapError
WrapError(err, msg) ==
    IF err = Nil THEN Nil
    ELSE IF ErrIs(err, "norows") THEN Wrap(err, "NOT_FOUND", msg)
    ELSE IF ErrIs(err, "txdone") THEN Wrap(err, "INVALID_STATE", msg)
    ELSE IF ErrIs(err, "conndone") THEN Wrap(err, "UNAVAILABLE", msg)
    ELSE IF ErrIs(err, "canceled") THEN Wrap(err, "CANCELLED", msg)
    ELSE IF ErrIs(err, "deadline") THEN Wrap(err, "TIMEOUT", msg)
    ELSE IF classifyPostgresError(err) # "" THEN Wrap(err, classifyPostgresError(err), msg)
    ELSE IF classifyMySQLError(err) # "" THEN Wrap(err, classifyMySQLError(err), msg)
    ELSE Wrap(err, "DATABASE_ERROR", msg)

\* kdbx.IsRetryable
IsRetryable(err) ==
    IF err = Nil THEN FALSE
    ELSE IF ErrIs(err, "canceled") THEN FALSE
    ELSE IF ErrAs(err, "kerr") = 0 THEN FALSE
    ELSE GetCode(err) \in {"UNAVAILABLE", "TIMEOUT", "CONFLICT"}

----------------------------------------------------------------------------
(* dbx error classification (string matching on err.Error()) *)

\* keywords of classifyError / isRetryableErr found in a lower-cased message
MsgWords(msg) ==
    CASE msg = "could not serialize access due to concurrent update"
              -> {"could not serialize"}
      [] msg = "deadlock detected" -> {"deadlock"}
      [] msg = "duplicate key value violates unique constraint"
              -> {"duplicate", "unique constraint"}
      [] msg = "connection refused" -> {"connection", "connect"}
      [] msg = "sql: connection is already closed" -> {"connection", "connect"}
      [] msg = "unique constraint violation" -> {"unique constraint"}
      [] msg = "operation timeout" -> {"timeout"}
      [] OTHER -> {}

\* keywords a message holds only once strings.ToLower has folded its capitals
FoldedWords(msg) ==
    CASE msg = "Duplicate entry" -> {"duplicate"}
      [] msg = "Deadlock found" -> {"deadlock"}
      [] msg = "Lock wait timeout exceeded" -> {"timeout"}
      [] OTHER -> {}

\* keywords found in the "[CODE]" prefix kerrors.Error.Error() prints
CodeWords(code) ==
    CASE code = "TIMEOUT" -> {"timeout"}
      [] code = "SERIALIZATION_ERROR" -> {"serialization"}
      [] OTHER -> {}

\* exact-case keywords, as strings.Contains(err.Error(), w) sees them
ErrorTextWords(err) ==
    UNION {MsgWords(err[i].msg) : i \in 1..Len(err)}

\* keywords of strings.ToLower(err.Error())
ErrorLowerWords(err) ==
    UNION {MsgWords(err[i].msg) \cup FoldedWords(err[i].msg) \cup CodeWords(err[i].code) :
           i \in 1..Len(err)}

classifyPgError(code) ==
    CASE code \in {"08000", "08003", "08006"} -> "connection"
      [] code = "40001" -> "serialization"
      [] code = "40P01" -> "deadlock"
      [] code = "23505" -> "unique_violation"
      [] code = "23503" -> "foreign_key_violation"
      [] code \in {"23000", "23001", "23502", "23514", "23P01"} -> "constraint"
      [] code \in {"42501", "42601", "42701", "42702", "42703", "42P01", "42P02"}
              -> "query"
      [] OTHER -> "unknown"

\* dbx classifyError
classifyError(err) ==
    IF err = Nil THEN "unknown"
    ELSE IF err[1].t = "norows" THEN "not_found"
    ELSE IF err[1].t = "txdone" THEN "transaction"
    ELSE IF err[1].t = "conndone" THEN "connection"
    ELSE IF ErrIs(err, "deadline") \/ ErrIs(err, "canceled") THEN "timeout"
    ELSE IF ErrIs(err, "net") THEN "connection"
    ELSE IF ErrAs(err, "pg") # 0 THEN classifyPgError(err[ErrAs(err, "pg")].code)
    ELSE LET w == ErrorLowerWords(err) IN
         IF w \cap {"connection", "connect"} # {} THEN "connection"
         ELSE IF w \cap {"serialization", "could not serialize"} # {} THEN "serialization"
         ELSE IF "deadlock" \in w THEN "deadlock"
         ELSE IF w \cap {"duplicate", "unique constraint"} # {} THEN "unique_violation"
         ELSE IF "foreign key" \in w THEN "foreign_key_violation"
         ELSE IF w \cap {"timeout", "timed out"} # {} THEN "timeout"
         ELSE "unknown"

\* dbx wrapDBError
wrapDBError(err, operation) ==
    IF err = Nil THEN Nil
    ELSE LET ty == classifyError(err) IN
         Wrap(err,
              CASE ty = "not_found" -> "NOT_FOUND"
                [] ty = "timeout" -> "TIMEOUT"
                [] ty \in {"connection", "deadlock", "serialization"} -> "UNAVAILABLE"
                [] ty \in {"unique_violation", "constraint", "foreign_key_violation"}
                        -> "CONFLICT"
                [] OTHER -> "DATABASE_ERROR",
              operation)

\* dbx IsRetryable
DbxIsRetryable(err) ==
    IF err = Nil THEN FALSE
    ELSE classifyError(err) \in {"connection", "serialization", "deadlock", "timeout"}

\* dbx isRetryableErr (used by DB.WithTx)
isRetryableErr(err) ==
    \/ ErrIs(err, "deadline") \/ ErrIs(err, "canceled")
    \/ (ErrAs(err, "net") # 0 /\ err[ErrAs(err, "net")].code = "temporary")
    \/ ErrorTextWords(err) \cap {"serialization", "deadlock"} # {}

----------------------------------------------------------------------------
(* Transactions, contexts and call frames *)

MaxFnCalls == 4      \* invocations of the user fn in one top-level call

Helpers == {"Atomically", "RunInTx", "KdbxWithTransaction",
            "KdbxWithTransactionOptions", "DbxWithTx", "DbxWithPgxTx"}
CtxHelpers == {"Atomically", "RunInTx"}
KdbxHelpers == {"KdbxWithTransaction", "KdbxWithTransactionOptions"}

Running == [k |-> "run", err |-> Nil, v |-> ""]
NoOutcome == [k |-> "none", err |-> Nil, v |-> ""]
Ret(e) == [k |-> "ret", err |-> e, v |-> ""]
Panic(v) == [k |-> "panic", err |-> Nil, v |-> v]

\* the value found under txKey{} in a context: its dynamic type and the tx
NoCtxVal == [dyn |-> "none", tx |-> 0]
\* pgxpool.Pool.Begin returns a pgx.Tx whose dynamic type is *pgxpool.Tx
PoolBeginDyn == "*pgxpool.Tx"
PgxTxImpls == {"*pgxpool.Tx", "*pgx.dbTx"}

\* transactor: ctx.Value(txKey{}).(*pgx.Tx), an assertion to pointer-to-interface
AtomicallyCtxHasTx(cv) == cv.dyn = "*pgx.Tx"
\* kpgx: ctx.Value(txKey{}).(pgx.Tx), an assertion to the interface
RunInTxCtxHasTx(cv) == cv.dyn \in PgxTxImpls

\* fnOut records how the fn that was given the transaction ended
NewTx(h) == [by |-> h, state |-> "open", commits |-> 0, rollbacks |-> 0,
             fnOut |-> "running"]

\* the state the helpers read and write, as one value
Cur == [stack |-> stack, txs |-> txs, signal |-> signal, result |-> result,
        fnCalls |-> fnCalls, attempts |-> attempts]

NewFrame(h, n, cvin) ==
    [h |-> h, tx |-> 0, own |-> FALSE, attempt |-> 0, n |-> n, cvin |-> cvin,
     cv |-> cvin, pc |-> "fn", lastErr |-> Nil, inner |-> NoOutcome]

\* tx.Commit: the driver answers cerr; a finished transaction answers ErrTxClosed
TxCommit(st, id, cerr) ==
    [st EXCEPT !.txs[id].commits = @ + 1,
               !.txs[id].state = IF @ = "open"
                                 THEN (IF cerr = Nil THEN "committed" ELSE "aborted")
                                 ELSE @]
CommitResult(st, id, cerr) ==
    IF st.txs[id].state = "open" THEN cerr ELSE ErrTxClosed

\* tx.Rollback
TxRollback(st, id) ==
    [st EXCEPT !.txs[id].rollbacks = @ + 1,
               !.txs[id].state = IF @ = "open" THEN "rolledback" ELSE @]

\* the helper whose frame was removed from st.stack ends with outcome out
Deliver(st, out) ==
    IF st.stack = << >> THEN [st EXCEPT !.result = out, !.signal = Running]
    ELSE IF out.k = "panic" THEN [st EXCEPT !.signal = out]
    ELSE [st EXCEPT !.stack[Len(st.stack)].inner = out, !.signal = Running]

\* the helper calls fn with frame f
InvokeFn(st, f) ==
    [st EXCEPT !.stack = Append(@, [f EXCEPT !.pc = "fn"]),
               !.fnCalls = @ + 1, !.signal = Running]

\* the helper begins a transaction and calls fn with it
BeginAndInvoke(st, f, dyn) ==
    LET id == Len(st.txs) + 1 IN
    InvokeFn([st EXCEPT !.txs = Append(@, NewTx(f.h))],
             [f EXCEPT !.tx = id, !.own = TRUE, !.cv = [dyn |-> dyn, tx |-> id]])

\* the helper waits out a backoff delay
Sleep(st, f, err) ==
    [st EXCEPT !.stack = Append(@, [f EXCEPT !.pc = "sleep", !.lastErr = err,
                                             !.tx = 0, !.own = FALSE])]

CtxErr == IF ctxDone = "deadline" THEN CtxDeadline ELSE CtxCanceled

\* BeginTx(ctx) / Pool.Begin(ctx): a context that is done is answered with its
\* error before the driver is asked; otherwise the driver answers berr
DriverBegin(berr) == IF ctxDone # "live" THEN CtxErr ELSE berr

\* history: an attempt of the retry loop ended at step src with error err
Attempt(src, err) == [src |-> src, err |-> err]
Record(st, src, err) == [st EXCEPT !.attempts = Append(@, Attempt(src, err))]

----------------------------------------------------------------------------
(* transactor.SQLTransactor.Atomically *)

\* up to the call of fn
AtomicallyEnter(st, f, berr) ==
    IF AtomicallyCtxHasTx(f.cvin) THEN InvokeFn(st, f)
    ELSE IF berr # Nil
         THEN Deliver(st, Ret(FmtWrap(berr, "failed to begin transaction")))
         ELSE BeginAndInvoke(st, f, PoolBeginDyn)

\* what the caller receives on the commit path: "return err" has copied fn's
\* result into the unnamed result before the deferred function assigns the
\* commit error to the local variable err
AtomicallyResult(e, commitErr) == e

\* from fn's return to the helper's return, deferred function included
AtomicallyReturn(st, f, e, cerr) ==
    IF ~f.own THEN Deliver(st, Ret(e))
    ELSE IF e # Nil THEN Deliver(TxRollback(st, f.tx), Ret(e))
    ELSE Deliver(TxCommit(st, f.tx, cerr),
                 Ret(AtomicallyResult(e, CommitResult(st, f.tx, cerr))))

\* the deferred function when fn panicked with v
AtomicallyPanic(st, f, v) ==
    IF ~f.own THEN Deliver(st, Panic(v))
    ELSE Deliver(TxRollback(st, f.tx), Panic(v))

----------------------------------------------------------------------------
(* kpgx.DB.RunInTx *)

RunInTxEnter(st, f, berr) ==
    IF RunInTxCtxHasTx(f.cvin) THEN InvokeFn(st, f)
    ELSE IF berr # Nil
         THEN Deliver(st, Ret(FmtWrap(berr, "failed to begin transaction")))
         ELSE BeginAndInvoke(st, f, PoolBeginDyn)

\* the deferred "_ = tx.Rollback(ctx)" runs on every exit of the owning call
RunInTxReturn(st, f, e, cerr) ==
    IF ~f.own THEN Deliver(st, Ret(e))
    ELSE IF e # Nil THEN Deliver(TxRollback(st, f.tx), Ret(e))
    ELSE LET ce == CommitResult(st, f.tx, cerr) IN
         Deliver(TxRollback(TxCommit(st, f.tx, cerr), f.tx),
                 Ret(IF ce # Nil THEN FmtWrap(ce, "failed to commit transaction")
                     ELSE Nil))

RunInTxPanic(st, f, v) ==
    IF ~f.own THEN Deliver(st, Panic(v))
    ELSE Deliver(TxRollback(st, f.tx), Panic(v))

----------------------------------------------------------------------------
(* kdbx withRetry, WithTransaction, WithTransactionOptions *)

\* variant: the test that ends the loop after the last attempt is off by one
withRetryAfter_SleepsAfterLast(st, f, err) ==
    IF f.n <= 0 THEN Deliver(st, Ret(err))
    ELSE IF err = Nil THEN Deliver(st, Ret(Nil))
    ELSE IF ~IsRetryable(err) THEN Deliver(st, Ret(err))
    ELSE IF f.attempt > f.n
         THEN Deliver(st, Ret(WrapError(err, "maximum retry attempts exceeded")))
         ELSE Sleep(st, f, err)

\* variant: the loop gives up one attempt before the budget is used up
withRetryAfter_GivesUpEarly(st, f, err) ==
    IF f.n <= 0 THEN Deliver(st, Ret(err))
    ELSE IF err = Nil THEN Deliver(st, Ret(Nil))
    ELSE IF ~IsRetryable(err) THEN Deliver(st, Ret(err))
    ELSE IF f.attempt + 1 >= f.n
         THEN Deliver(st, Ret(WrapError(err, "maximum retry attempts exceeded")))
         ELSE Sleep(st, f, err)

\* withRetry after the attempt's closure returned err
withRetryAfter(st, f, err) ==
    IF f.n <= 0 THEN Deliver(st, Ret(err))
    ELSE IF err = Nil THEN Deliver(st, Ret(Nil))
    ELSE IF ~IsRetryable(err) THEN Deliver(st, Ret(err))
    ELSE IF f.attempt >= f.n
         THEN Deliver(st, Ret(WrapError(err, "maximum retry attempts exceeded")))
         ELSE Sleep(st, f, err)

\* the closure of WithTransaction up to the call of fn
KdbxBody(st, f, berr) ==
    IF berr # Nil
    THEN LET be == WrapError(berr, "failed to begin transaction")
         IN  withRetryAfter(Record(st, "begin", be), f, be)
    ELSE BeginAndInvoke(st, f, "kdbx.Tx")

\* withRetry from the top of an iteration
withRetryEnter(st, f, berr) ==
    IF f.n <= 0 THEN KdbxBody(st, f, berr)
    ELSE IF ~(f.attempt <= f.n)
         THEN Deliver(st, Ret(WrapError(f.lastErr, "maximum retry attempts exceeded")))
    ELSE IF ctxDone # "live"
         THEN Deliver(st, Ret(WrapError(CtxErr, "context cancelled before retry")))
    ELSE KdbxBody(st, f, berr)

\* variant: the closure commits whatever fn returned
KdbxReturn_CommitsAlways(st, f, e, cerr) ==
    withRetryAfter(TxCommit(st, f.tx, cerr), f,
                   IF e # Nil THEN e
                   ELSE WrapError(CommitResult(st, f.tx, cerr),
                                  "failed to commit transaction"))

\* variant: the closure returns fn's error without rolling back
KdbxReturn_SkipsRollback(st, f, e, cerr) ==
    IF e # Nil THEN withRetryAfter(Record(st, "fn", e), f, e)
    ELSE LET ce == WrapError(CommitResult(st, f.tx, cerr),
                             "failed to commit transaction")
         IN  withRetryAfter(Record(TxCommit(st, f.tx, cerr), "commit", ce), f, ce)

\* the closure from fn's return on
KdbxReturn(st, f, e, cerr) ==
    IF e # Nil THEN withRetryAfter(Record(TxRollback(st, f.tx), "fn", e), f, e)
    ELSE LET ce == WrapError(CommitResult(st, f.tx, cerr),
                             "failed to commit transaction")
         IN  withRetryAfter(Record(TxCommit(st, f.tx, cerr), "commit", ce), f, ce)

\* variant: the deferred recover turns the panic into a returned error
KdbxPanic_AsError(st, f, v) ==
    withRetryAfter(TxRollback(st, f.tx), f,
                   WrapError(PgError("40001", "recovered"), "panic in transaction"))

\* the closure's deferred recover
KdbxPanic(st, f, v) == Deliver(TxRollback(st, f.tx), Panic(v))

\* the backoff select when ctx.Done() is chosen
withRetrySleepDone(st, f) ==
    Deliver(st, Ret(WrapError(CtxErr, "context cancelled during retry backoff")))

\* WithTransactionOptions: the budget of the call
OptionsBudget(optMaxRetries, configAttempts) ==
    IF optMaxRetries >= 0 THEN optMaxRetries ELSE configAttempts

\* variant: the override is written through the shared *Config
SharedConfigAfterOptions_InPlace(optMaxRetries, configAttempts) ==
    IF optMaxRetries >= 0 THEN optMaxRetries ELSE configAttempts

\* WithTransactionOptions: RetryAttempts of the database's own Config after the
\* call; the override goes into tempConfig, a copy
SharedConfigAfterOptions(optMaxRetries, configAttempts) ==
    configAttempts

----------------------------------------------------------------------------
(* dbx DB.WithTx *)

WithTxEnter(st, f, berr) ==
    IF ~(f.attempt <= f.n) THEN Deliver(st, Ret(f.lastErr))
    ELSE IF berr # Nil THEN Deliver(Record(st, "begin", berr), Ret(berr))
    ELSE BeginAndInvoke(st, f, "*sql.Tx")

WithTxAfter(st, f, err) ==
    IF isRetryableErr(err) /\ f.attempt < f.n THEN Sleep(st, f, err)
    ELSE Deliver(st, Ret(err))

WithTxReturn(st, f, e, cerr) ==
    LET ce == CommitResult(st, f.tx, cerr) IN
    IF e # Nil THEN WithTxAfter(Record(TxRollback(st, f.tx), "fn", e), f, e)
    ELSE IF ce # Nil
         THEN WithTxAfter(Record(TxCommit(st, f.tx, cerr), "commit", ce), f, ce)
         ELSE Deliver(Record(TxCommit(st, f.tx, cerr), "commit", Nil), Ret(Nil))

\* no deferred function: the panic leaves WithTx as it is
WithTxPanic(st, f, v) == Deliver(st, Panic(v))

----------------------------------------------------------------------------
(* dbx retryableOperation, retryForTransaction, DB.WithPgxTx *)

retryableOperationAfter(st, f, err) ==
    IF err = Nil THEN Deliver(st, Ret(Nil))
    ELSE IF ~DbxIsRetryable(err) THEN Deliver(st, Ret(err))
    ELSE IF f.attempt = f.n - 1 THEN Deliver(st, Ret(err))
    ELSE IF ctxDone # "live" THEN Deliver(st, Ret(CtxErr))
    ELSE Sleep(st, f, err)

retryableOperationEnter(st, f, berr) ==
    IF ~(f.attempt < f.n) THEN Deliver(st, Ret(f.lastErr))
    ELSE IF berr # Nil
         THEN LET be == wrapDBError(berr, "begin pgx transaction")
              IN  retryableOperationAfter(Record(st, "begin", be), f, be)
         ELSE BeginAndInvoke(st, f, "*pgxpool.Tx")

WithPgxTxReturn(st, f, e, cerr) ==
    LET ce == wrapDBError(CommitResult(st, f.tx, cerr), "commit pgx transaction") IN
    IF e # Nil THEN retryableOperationAfter(Record(TxRollback(st, f.tx), "fn", e), f, e)
    ELSE retryableOperationAfter(Record(TxCommit(st, f.tx, cerr), "commit", ce), f, ce)

WithPgxTxPanic(st, f, v) == Deliver(st, Panic(v))

retryableOperationSleepDone(st, f) == Deliver(st, Ret(CtxErr))

----------------------------------------------------------------------------
(* Dispatch on the helper of a frame *)

Enter(st, f, berr) ==
    CASE f.h = "Atomically" -> AtomicallyEnter(st, f, berr)
      [] f.h = "RunInTx" -> RunInTxEnter(st, f, berr)
      [] f.h \in KdbxHelpers -> withRetryEnter(st, f, berr)
      [] f.h = "DbxWithTx" -> WithTxEnter(st, f, berr)
      [] f.h = "DbxWithPgxTx" -> retryableOperationEnter(st, f, berr)

OnReturn(st, f, e, cerr) ==
    CASE f.h = "Atomically" -> AtomicallyReturn(st, f, e, cerr)
      [] f.h = "RunInTx" -> RunInTxReturn(st, f, e, cerr)
      [] f.h \in KdbxHelpers -> KdbxReturn(st, f, e, cerr)
      [] f.h = "DbxWithTx" -> WithTxReturn(st, f, e, cerr)
      [] f.h = "DbxWithPgxTx" -> WithPgxTxReturn(st, f, e, cerr)

OnPanic(st, f, v) ==
    CASE f.h = "Atomically" -> AtomicallyPanic(st, f, v)
      [] f.h = "RunInTx" -> RunInTxPanic(st, f, v)
      [] f.h \in KdbxHelpers -> KdbxPanic(st, f, v)
      [] f.h = "DbxWithTx" -> WithTxPanic(st, f, v)
      [] f.h = "DbxWithPgxTx" -> WithPgxTxPanic(st, f, v)

\* the helpers whose backoff wait selects on ctx.Done(); WithTx uses time.Sleep
SleepObservesCtx(h) == h \in KdbxHelpers \cup {"DbxWithPgxTx"}

OnSleepDone(st, f) ==
    IF f.h \in KdbxHelpers THEN withRetrySleepDone(st, f)
    ELSE retryableOperationSleepDone(st, f)

----------------------------------------------------------------------------
(* Inputs *)

SerializationFailure ==
    PgError("40001", "could not serialize access due to concurrent update")
AppError == PlainError("insufficient funds")
\* what a kdbx Tx.Exec returns on a serialization failure
ExecConflict == WrapError(SerializationFailure, "transaction exec failed")
Deadlock == PgError("40P01", "deadlock detected")

\* the sentinel kdbx.ErrDeadlock: a Conflict error with no driver error beneath
ErrDeadlock == Leaf("kerr", "CONFLICT", "deadlock detected")

FnErrs == {AppError, ExecConflict, Deadlock, CtxCanceled, ErrDeadlock}
CommitErrs == {Nil, SerializationFailure, Deadlock,
               PgError("23505", "duplicate key value violates unique constraint")}
BeginErrs == {Nil, PgError("53300", "sorry, too many clients already")}
PanicValues == {"p1", "p2"}
CfgRetryValues == -1..MaxRetryCfg

----------------------------------------------------------------------------
(* Actions of the transaction helpers *)

Top == stack[Len(stack)]
Pop(st) == [st EXCEPT !.stack = SubSeq(@, 1, Len(@) - 1)]

\* history: how the fn holding the frame's transaction ended
Mark(st, f, how) ==
    IF f.own THEN [st EXCEPT !.txs[f.tx].fnOut = how] ELSE st

Apply(st) ==
    /\ stack' = st.stack
    /\ txs' = st.txs
    /\ signal' = st.signal
    /\ result' = st.result
    /\ fnCalls' = st.fnCalls
    /\ attempts' = st.attempts

FnRunning == stack # << >> /\ signal.k = "run" /\ Top.pc = "fn"

\* the error the nested helper call returned to the running fn, if any
InnerErrs == IF stack # << >> THEN {Top.inner.err} ELSE {}

\* no helper call made yet; cfg0 is the RetryAttempts the database was built with
NoTopCall(cfg0) == [h |-> "none", n |-> 0, opt |-> -1, cfg0 |-> cfg0]

\* the application calls a helper with a context that carries no transaction
Call(h, opt, berr) ==
    /\ stack = << >> /\ result.k = "none" /\ call.h = "none"
    /\ LET n == IF h = "KdbxWithTransactionOptions"
                THEN OptionsBudget(opt, cfgRetry)
                ELSE IF h \in CtxHelpers THEN 0 ELSE cfgRetry
       IN  /\ call' = [call EXCEPT !.h = h, !.n = n,
                                    !.opt = IF h = "KdbxWithTransactionOptions"
                                            THEN opt ELSE -1]
           /\ Apply(Enter(Cur, NewFrame(h, n, NoCtxVal), DriverBegin(berr)))
    /\ cfgRetry' = IF h = "KdbxWithTransactionOptions"
                   THEN SharedConfigAfterOptions(opt, cfgRetry)
                   ELSE cfgRetry
    /\ UNCHANGED <<ctxDone, raised, cb, cbLog, now, g, bk, hc, probe, sp, ev, sd>>

\* fn calls the same helper again with the context it was handed
NestedCall(berr) ==
    /\ FnRunning
    /\ Top.h \in CtxHelpers
    /\ Len(stack) < MaxDepth
    /\ fnCalls < MaxFnCalls
    /\ Apply(Enter(Cur, NewFrame(Top.h, 0, Top.cv), DriverBegin(berr)))
    /\ UNCHANGED <<ctxDone, cfgRetry, call, raised, cb, cbLog, now, g, bk, hc, probe, sp, ev, sd>>

\* fn returns nil, an error of its own, or the error of its nested call; the
\* driver answers cerr if the helper then commits
FnReturn(cerr) ==
    /\ FnRunning
    /\ \E e \in FnErrs \cup {Nil} \cup InnerErrs :
           Apply(OnReturn(Mark(Pop(Cur), Top, IF e = Nil THEN "nil" ELSE "err"),
                          Top, e, cerr))
    /\ UNCHANGED <<ctxDone, cfgRetry, call, raised, cb, cbLog, now, g, bk, hc, probe, sp, ev, sd>>

\* fn panics with v
FnPanic(v) ==
    /\ FnRunning
    /\ raised.v = ""
    /\ raised' = [v |-> v, calls |-> fnCalls]
    /\ Apply(OnPanic(Mark(Pop(Cur), Top, "panic"), Top, v))
    /\ UNCHANGED <<ctxDone, cfgRetry, call, cb, cbLog, now, g, bk, hc, probe, sp, ev, sd>>

\* a panic that left a nested helper unwinds the enclosing fn and helper
Unwind ==
    /\ stack # << >> /\ signal.k = "panic"
    /\ Apply(OnPanic(Mark(Pop(Cur), Top, "panic"), Top, signal.v))
    /\ UNCHANGED <<ctxDone, cfgRetry, call, raised, cb, cbLog, now, g, bk, hc, probe, sp, ev, sd>>

\* the backoff timer fires and the loop goes to its next iteration
Wake(berr) ==
    /\ stack # << >> /\ Top.pc = "sleep"
    /\ Apply(Enter(Pop(Cur), [Top EXCEPT !.attempt = @ + 1], DriverBegin(berr)))
    /\ UNCHANGED <<ctxDone, cfgRetry, call, raised, cb, cbLog, now, g, bk, hc, probe, sp, ev, sd>>

\* the backoff select takes the ctx.Done() case
SleepCtxDone ==
    /\ stack # << >> /\ Top.pc = "sleep"
    /\ ctxDone # "live"
    /\ SleepObservesCtx(Top.h)
    /\ Apply(OnSleepDone(Pop(Cur), Top))
    /\ UNCHANGED <<ctxDone, cfgRetry, call, raised, cb, cbLog, now, g, bk, hc, probe, sp, ev, sd>>

\* the caller cancels the context, or its deadline passes
Cancel(how) ==
    /\ ctxDone = "live" /\ result.k = "none"
    /\ ctxDone' = how
    /\ UNCHANGED <<stack, txs, signal, result, fnCalls, attempts, cfgRetry, call, raised,
                   cb, cbLog, now, g, bk, hc, probe, sp, ev, sd>>

\* the call has returned; the application goes on to its next call, with a
\* new context and the same database
CallAgain ==
    /\ stack = << >> /\ result.k = "ret"
    /\ stack' = << >> /\ txs' = << >> /\ signal' = Running /\ result' = NoOutcome
    /\ fnCalls' = 0 /\ attempts' = << >> /\ ctxDone' = "live"
    /\ call' = NoTopCall(call.cfg0)
    /\ raised' = [v |-> "", calls |-> 0]
    /\ UNCHANGED <<cfgRetry, cb, cbLog, now, g, bk, hc, probe, sp, ev, sd>>

TxInit ==
    /\ stack = << >>
    /\ txs = << >>
    /\ signal = Running
    /\ result = NoOutcome
    /\ fnCalls = 0
    /\ attempts = << >>
    /\ ctxDone = "live"
    /\ cfgRetry \in CfgRetryValues
    /\ call = NoTopCall(cfgRetry)
    /\ raised = [v |-> "", calls |-> 0]

TxNext ==
    \/ \E h \in Helpers, opt \in CfgRetryValues, berr \in BeginErrs : Call(h, opt, berr)
    \/ \E berr \in BeginErrs : NestedCall(berr)
    \/ \E cerr \in CommitErrs : FnReturn(cerr)
    \/ \E v \in PanicValues : FnPanic(v)
    \/ Unwind
    \/ \E berr \in BeginErrs : Wake(berr)
    \/ SleepCtxDone
    \/ \E how \in {"canceled", "deadline"} : Cancel(how)
    \/ CallAgain

----------------------------------------------------------------------------
(* dbx CircuitBreaker, one caller at a time *)

\* the zero time.Time of a new breaker lies before every clock reading
ZeroTime == 0 - (MaxTime + MaxTimeoutBound + 1)

NewCircuitBreaker(maxFailures, resetTimeout) ==
    [maxFailures |-> maxFailures, resetTimeout |-> resetTimeout,
     failures |-> 0, lastFailTime |-> ZeroTime, state |-> "Closed"]

\* time.Since(cb.lastFailTime) > cb.resetTimeout
TimeoutElapsed(c, t) == t - c.lastFailTime > c.resetTimeout

\* variant: the threshold test is off by one
ThresholdReached_OffByOne(c) == c.failures > c.maxFailures

\* cb.failures >= cb.maxFailures
ThresholdReached(c) == c.failures >= c.maxFailures

\* the check at the top of Execute: the breaker as the operation will see it
ExecuteAdmit(c, t) ==
    IF c.state = "Open" /\ TimeoutElapsed(c, t)
    THEN [c EXCEPT !.state = "HalfOpen", !.failures = 0]
    ELSE c

\* Execute returns ErrCircuitBreakerOpen without calling the operation
ExecuteRejects(c, t) == c.state = "Open" /\ ~TimeoutElapsed(c, t)

\* the handling of a failed operation; t is the time.Now() read after it
ExecuteFailure(c, t) ==
    LET c2 == [c EXCEPT !.failures = @ + 1, !.lastFailTime = t] IN
    IF ThresholdReached(c2) THEN [c2 EXCEPT !.state = "Open"] ELSE c2

\* variant: a success leaves a half-open breaker half-open
ExecuteSuccess_StaysHalfOpen(c) == c

\* the handling of a successful operation
ExecuteSuccess(c) ==
    IF c.state = "HalfOpen" THEN [c EXCEPT !.state = "Closed", !.failures = 0]
    ELSE c

\* variant: Reset closes the breaker and keeps the count
ResetBreaker_KeepsCount(c) == [c EXCEPT !.state = "Closed"]

\* Reset
ResetBreaker(c) == [c EXCEPT !.state = "Closed", !.failures = 0]

\* pre: state at entry; mid: state when the operation was running; since: time
\* since the last failure at entry; run: failing calls in a row, each made on a
\* Closed breaker
NoCall == [op |-> "none", pre |-> "Closed", mid |-> "Closed", since |-> 0,
           invoked |-> FALSE, ret |-> "none", run |-> 0]

\* Execute(operation) where the operation fails or not and takes d ticks
Execute(opFails, d) ==
    /\ now + d <= MaxTime
    /\ LET adm == ExecuteAdmit(cb, now)
           rej == ExecuteRejects(cb, now)
           post == IF rej THEN cb
                   ELSE IF opFails THEN ExecuteFailure(adm, now + d)
                   ELSE ExecuteSuccess(adm)
       IN  /\ cb' = post
           /\ now' = IF rej THEN now ELSE now + d
           /\ cbLog' = [op |-> "Execute", pre |-> cb.state, mid |-> adm.state,
                        since |-> now - cb.lastFailTime,
                        invoked |-> ~rej,
                        ret |-> IF rej THEN "ErrCircuitBreakerOpen"
                                ELSE IF opFails THEN "err" ELSE "nil",
                        run |-> IF ~rej /\ opFails /\ cb.state = "Closed"
                                THEN cbLog.run + 1 ELSE 0]
    /\ UNCHANGED <<stack, txs, signal, result, fnCalls, attempts, ctxDone, cfgRetry, call,
                   raised, g, bk, hc, probe, sp, ev, sd>>

Reset ==
    /\ cb' = ResetBreaker(cb)
    /\ cbLog' = [NoCall EXCEPT !.op = "Reset", !.pre = cb.state, !.mid = cb.state]
    /\ UNCHANGED <<stack, txs, signal, result, fnCalls, attempts, ctxDone, cfgRetry, call,
                   raised, now, g, bk, hc, probe, sp, ev, sd>>

\* time passes between calls
Tick ==
    /\ now < MaxTime
    /\ now' = now + 1
    /\ UNCHANGED <<stack, txs, signal, result, fnCalls, attempts, ctxDone, cfgRetry, call,
                   raised, cb, cbLog, g, bk, hc, probe, sp, ev, sd>>

BreakerInit ==
    /\ \E m \in 1..MaxFailuresBound, t \in 0..MaxTimeoutBound :
           cb = NewCircuitBreaker(m, t)
    /\ cbLog = NoCall
    /\ now = 0

BreakerNext ==
    \/ \E opFails \in BOOLEAN, d \in 0..1 : Execute(opFails, d)
    \/ Reset
    \/ Tick

----------------------------------------------------------------------------
(* dbx CircuitBreaker.Execute called from several goroutines.  The struct   *)
(* has no mutex: every read and write of a field is a step of its own, and  *)
(* cb.failures++ is a load followed by a store.                             *)

Goroutines == 1..NumGoroutines

IdleGoroutine == [pc |-> "idle", tmp |-> 0, calls |-> 0, failed |-> 0, other |-> 0]

ConcRest == <<stack, txs, signal, result, fnCalls, attempts, ctxDone, cfgRetry, call,
              raised, cbLog, bk, hc, probe, sp, ev, sd>>

\* a goroutine calls Execute
CStart(i) ==
    /\ g[i].pc = "idle" /\ g[i].calls < MaxConcCalls
    /\ g' = [g EXCEPT ![i].pc = "check", ![i].calls = @ + 1]
    /\ UNCHANGED <<cb, now>> /\ UNCHANGED ConcRest

\* if cb.state == CircuitBreakerOpen { if time.Since(...) > cb.resetTimeout
CCheck(i) ==
    /\ g[i].pc = "check"
    /\ IF cb.state # "Open"
       THEN g' = [g EXCEPT ![i].pc = "op",
                           ![i].other = IF cb.state = "Closed" THEN @ ELSE @ + 1]
       ELSE IF TimeoutElapsed(cb, now)
            THEN g' = [g EXCEPT ![i].pc = "half", ![i].other = @ + 1]
            ELSE g' = [g EXCEPT ![i].pc = "idle", ![i].other = @ + 1]
    /\ UNCHANGED <<cb, now>> /\ UNCHANGED ConcRest

\* cb.state = CircuitBreakerHalfOpen; cb.failures = 0
CHalfOpen(i) ==
    /\ g[i].pc = "half"
    /\ cb' = [cb EXCEPT !.state = "HalfOpen", !.failures = 0]
    /\ g' = [g EXCEPT ![i].pc = "op"]
    /\ UNCHANGED now /\ UNCHANGED ConcRest

\* err := operation()
COp(i, opFails) ==
    /\ g[i].pc = "op"
    /\ g' = [g EXCEPT ![i].pc = IF opFails THEN "load" ELSE "succ",
                      ![i].failed = IF opFails THEN @ + 1 ELSE @,
                      ![i].other = IF opFails THEN @ ELSE @ + 1]
    /\ UNCHANGED <<cb, now>> /\ UNCHANGED ConcRest

\* cb.failures++ : the load
CLoad(i) ==
    /\ g[i].pc = "load"
    /\ g' = [g EXCEPT ![i].pc = "store", ![i].tmp = cb.failures]
    /\ UNCHANGED <<cb, now>> /\ UNCHANGED ConcRest

\* cb.failures++ : the store
CStore(i) ==
    /\ g[i].pc = "store"
    /\ cb' = [cb EXCEPT !.failures = g[i].tmp + 1]
    /\ g' = [g EXCEPT ![i].pc = "stamp"]
    /\ UNCHANGED now /\ UNCHANGED ConcRest

\* cb.lastFailTime = time.Now()
CStamp(i) ==
    /\ g[i].pc = "stamp"
    /\ cb' = [cb EXCEPT !.lastFailTime = now]
    /\ g' = [g EXCEPT ![i].pc = "cmp"]
    /\ UNCHANGED now /\ UNCHANGED ConcRest

\* if cb.failures >= cb.maxFailures { cb.state = CircuitBreakerOpen }; return err
CCompare(i) ==
    /\ g[i].pc = "cmp"
    /\ cb' = IF ThresholdReached(cb) THEN [cb EXCEPT !.state = "Open"] ELSE cb
    /\ g' = [g EXCEPT ![i].pc = "idle"]
    /\ UNCHANGED now /\ UNCHANGED ConcRest

\* if cb.state == CircuitBreakerHalfOpen { ... }; return nil
CSuccess(i) ==
    /\ g[i].pc = "succ"
    /\ cb' = ExecuteSuccess(cb)
    /\ g' = [g EXCEPT ![i].pc = "idle"]
    /\ UNCHANGED now /\ UNCHANGED ConcRest

CTick ==
    /\ now < MaxTime
    /\ now' = now + 1
    /\ UNCHANGED <<cb, g>> /\ UNCHANGED ConcRest

ConcInit ==
    /\ \E m \in 1..MaxFailuresBound, t \in 0..MaxTimeoutBound :
           cb = NewCircuitBreaker(m, t)
    /\ g = [i \in Goroutines |-> IdleGoroutine]
    /\ now = 0

ConcNext ==
    \/ \E i \in Goroutines : CStart(i)
    \/ \E i \in Goroutines : CCheck(i)
    \/ \E i \in Goroutines : CHalfOpen(i)
    \/ \E i \in Goroutines, opFails \in BOOLEAN : COp(i, opFails)
    \/ \E i \in Goroutines : CLoad(i)
    \/ \E i \in Goroutines : CStore(i)
    \/ \E i \in Goroutines : CStamp(i)
    \/ \E i \in Goroutines : CCompare(i)
    \/ \E i \in Goroutines : CSuccess(i)
    \/ CTick

----------------------------------------------------------------------------
(* Backoff functions.  Durations are integers; the random source returns    *)
(* r / JitterSteps for r in 0..JitterSteps-1, a value of [0, 1).            *)

BackoffUnit == 100

RECURSIVE Pow(_, _)
Pow(b, e) == IF e = 0 THEN 1 ELSE b * Pow(b, e - 1)

Min(a, b) == IF a < b THEN a ELSE b

\* kdbx: the capped exponential before jitter
CappedBackoff(initialBackoff, attempt, maxBackoff) ==
    Min(initialBackoff * Pow(2, attempt), maxBackoff)

\* kdbx: jitter := backoff * 0.1 * (2*randomFloat() - 1); backoff += jitter
AddJitter(backoff, r) ==
    (backoff * (10 * JitterSteps + 2 * r - JitterSteps)) \div (10 * JitterSteps)

\* kdbx calculateBackoff
calculateBackoff(initialBackoff, attempt, maxBackoff, r) ==
    AddJitter(CappedBackoff(initialBackoff, attempt, maxBackoff), r)

\* dbx: time.Duration(float64(cfg.InitialDelay) * math.Pow(cfg.Multiplier, attempt))
\* with the multiplier given as the fraction num/den
ExponentialDelay(initialDelay, num, den, attempt) ==
    (initialDelay * Pow(num, attempt)) \div Pow(den, attempt)

\* dbx calculateDelay under RetryStrategyExponentialJitter: rand.Int63n(n)
\* panics for n <= 0
calculateDelayPanics(initialDelay, num, den, attempt) ==
    ExponentialDelay(initialDelay, num, den, attempt) <= 0

\* dbx calculateDelay under RetryStrategyExponentialJitter, when it returns;
\* rand.Int63n(n) is a value of 0..n-1
calculateDelay(initialDelay, maxDelay, num, den, attempt, r) ==
    LET exponentialDelay == ExponentialDelay(initialDelay, num, den, attempt) IN
    Min(exponentialDelay + (exponentialDelay * r) \div JitterSteps, maxDelay)

Durations == {u * BackoffUnit : u \in 0..MaxBackoffUnits}
Multipliers == {<<3, 2>>, <<2, 1>>}

NoBackoff == [fn |-> "none", initial |-> 0, max |-> 0, attempt |-> 0, r |-> 0,
              panicked |-> FALSE, out |-> 0]

\* withRetry computes the sleep before its next attempt
ComputeBackoff(initial, max, attempt, r) ==
    /\ initial <= max
    /\ bk' = [fn |-> "calculateBackoff", initial |-> initial, max |-> max,
              attempt |-> attempt, r |-> r, panicked |-> FALSE,
              out |-> calculateBackoff(initial, attempt, max, r)]
    /\ UNCHANGED <<stack, txs, signal, result, fnCalls, attempts, ctxDone, cfgRetry, call,
                   raised, cb, cbLog, now, g, hc, probe, sp, ev, sd>>

\* retryableOperation computes the sleep before its next attempt
ComputeDelay(initial, max, m, attempt, r) ==
    /\ initial <= max
    /\ bk' = [fn |-> "calculateDelay", initial |-> initial, max |-> max,
              attempt |-> attempt, r |-> r,
              panicked |-> calculateDelayPanics(initial, m[1], m[2], attempt),
              out |-> IF calculateDelayPanics(initial, m[1], m[2], attempt) THEN 0
                      ELSE calculateDelay(initial, max, m[1], m[2], attempt, r)]
    /\ UNCHANGED <<stack, txs, signal, result, fnCalls, attempts, ctxDone, cfgRetry, call,
                   raised, cb, cbLog, now, g, hc, probe, sp, ev, sd>>

BackoffNext ==
    \/ \E initial \in Durations, max \in Durations, attempt \in 0..MaxAttemptArg,
          r \in 0..(JitterSteps - 1) : ComputeBackoff(initial, max, attempt, r)
    \/ \E initial \in Durations, max \in Durations, m \in Multipliers,
          attempt \in 0..MaxAttemptArg, r \in 0..(JitterSteps - 1) :
              ComputeDelay(initial, max, m, attempt, r)

----------------------------------------------------------------------------
(* kdbx HealthChecker.Check and CustomHealthChecker.CheckWithCustomChecks.   *)
(* HealthCheck values live in hc.objs and are referred to by their index, as *)
(* the code refers to them by pointer; 0 is nil.                             *)

NumCheckers == 2       \* goroutines calling the health checker
MaxHealthCalls == 3    \* calls made by a goroutine that is the only caller
MaxSharedCalls == 1    \* calls made by each goroutine when they share it
MaxCacheBound == 2     \* largest cacheDuration

Checkers == 1..NumCheckers

IdleChecker == [pc |-> "idle", op |-> "none", at |-> 0, start |-> 0, obj |-> 0,
                pinged |-> FALSE, calls |-> 0]

NoCheck == [at |-> 0, obj |-> 0, pinged |-> FALSE]

\* history: the last run of the custom checks, with the Status of the base
\* check before them and the Status returned after them
NoCustom == [base |-> "none", registered |-> FALSE, hasErrors |-> FALSE,
             out |-> "none"]

\* NewHealthChecker(db).WithCacheDuration(d), used by the goroutines in
\* callers, each of which makes at most maxCalls calls
NewHealthChecker(d, callers, maxCalls) ==
    [cacheDuration |-> d, lastCheck |-> 0, lastCheckTime |-> ZeroTime,
     objs |-> << >>, pings |-> 0, inflight |-> 0, callers |-> callers,
     maxCalls |-> maxCalls,
     p |-> [i \in Checkers |-> IdleChecker], prev |-> NoCheck, last |-> NoCheck,
     custom |-> NoCustom]

\* variant: a cached result never expires
CacheFresh_NeverExpires(h, t) == h.lastCheck # 0

\* h.lastCheck != nil && time.Since(h.lastCheckTime) < h.cacheDuration
CacheFresh(h, t) == h.lastCheck # 0 /\ t - h.lastCheckTime < h.cacheDuration

\* the HealthCheck built after db.Health returned
NewHealthCheck(start, failed) ==
    [Status |-> IF failed THEN "unhealthy" ELSE "healthy",
     Message |-> IF failed THEN "database health check failed"
                 ELSE "database is healthy",
     Timestamp |-> start, Details |-> {"pool"}, returned |-> FALSE]

\* variant: passing custom checks report the database healthy
ApplyCustomChecks_Upgrades(check, registered, hasErrors) ==
    IF registered /\ ~hasErrors
    THEN [check EXCEPT !.Status = "healthy", !.Message = "database is healthy",
                       !.Details = @ \cup {"custom_checks"}]
    ELSE IF registered /\ check.Status = "healthy"
         THEN [check EXCEPT !.Status = "degraded",
                            !.Details = @ \cup {"custom_checks"}]
         ELSE check

\* CheckWithCustomChecks after c.Check returned check: the custom results are
\* written into the object Check returned
ApplyCustomChecks(check, registered, hasErrors) ==
    LET c1 == IF registered
              THEN [check EXCEPT !.Details = @ \cup {"custom_checks"}]
              ELSE check
    IN  IF registered /\ hasErrors /\ c1.Status = "healthy"
        THEN [c1 EXCEPT !.Status = "degraded",
                        !.Message = "database is accessible but some custom checks failed"]
        ELSE c1

HealthRest == <<stack, txs, signal, result, fnCalls, attempts, ctxDone, cfgRetry,
                call, raised, cb, cbLog, g, bk, probe, sp, ev, sd>>

\* a goroutine calls Check or CheckWithCustomChecks: the cache is read under
\* the read lock; on a miss the lock is released and the ping starts
HLookup(i, op) ==
    /\ i \in hc.callers
    /\ hc.p[i].pc = "idle" /\ hc.p[i].calls < hc.maxCalls
    /\ IF CacheFresh(hc, now)
       THEN hc' = [hc EXCEPT !.p[i] = [@ EXCEPT !.pc = "ret", !.op = op,
                                                !.at = now, !.obj = hc.lastCheck,
                                                !.pinged = FALSE,
                                                !.calls = @ + 1]]
       ELSE hc' = [hc EXCEPT !.p[i] = [@ EXCEPT !.pc = "ping", !.op = op,
                                                !.at = now, !.start = now,
                                                !.obj = 0, !.pinged = TRUE,
                                                !.calls = @ + 1],
                             !.pings = @ + 1, !.inflight = @ + 1]
    /\ UNCHANGED now /\ UNCHANGED HealthRest

\* db.Health(ctx) returns; check := &HealthCheck{...}
HPingEnd(i, failed) ==
    /\ hc.p[i].pc = "ping"
    /\ hc' = [hc EXCEPT !.objs = Append(@, NewHealthCheck(hc.p[i].start, failed)),
                        !.inflight = @ - 1,
                        !.p[i].pc = "store", !.p[i].obj = Len(hc.objs) + 1]
    /\ UNCHANGED now /\ UNCHANGED HealthRest

\* h.mu.Lock(); h.lastCheck = check; h.lastCheckTime = start; h.mu.Unlock()
HStore(i) ==
    /\ hc.p[i].pc = "store"
    /\ hc' = [hc EXCEPT !.lastCheck = hc.p[i].obj,
                        !.lastCheckTime = hc.p[i].start,
                        !.p[i].pc = "ret"]
    /\ UNCHANGED now /\ UNCHANGED HealthRest

\* Check returns its result: to the caller, or to CheckWithCustomChecks
HReturn(i) ==
    /\ hc.p[i].pc = "ret"
    /\ hc' = [hc EXCEPT !.objs[hc.p[i].obj].returned = TRUE,
                        !.prev = hc.last,
                        !.last = [at |-> hc.p[i].at, obj |-> hc.p[i].obj,
                                  pinged |-> hc.p[i].pinged],
                        !.p[i] = IF hc.p[i].op = "Custom"
                                 THEN [@ EXCEPT !.pc = "custom"]
                                 ELSE [IdleChecker EXCEPT !.calls = hc.p[i].calls]]
    /\ UNCHANGED now /\ UNCHANGED HealthRest

\* the rest of CheckWithCustomChecks
HCustom(i, registered, hasErrors) ==
    /\ hc.p[i].pc = "custom"
    /\ hc' = [hc EXCEPT !.objs[hc.p[i].obj] =
                            ApplyCustomChecks(@, registered, hasErrors),
                        !.custom = [base |-> hc.objs[hc.p[i].obj].Status,
                                    registered |-> registered,
                                    hasErrors |-> registered /\ hasErrors,
                                    out |-> ApplyCustomChecks(hc.objs[hc.p[i].obj],
                                                registered, hasErrors).Status],
                        !.p[i] = [IdleChecker EXCEPT !.calls = hc.p[i].calls]]
    /\ UNCHANGED now /\ UNCHANGED HealthRest

HTick ==
    /\ now < MaxTime
    /\ now' = now + 1
    /\ UNCHANGED hc /\ UNCHANGED HealthRest

HealthNext ==
    \/ \E i \in Checkers, op \in {"Check", "Custom"} : HLookup(i, op)
    \/ \E i \in Checkers, failed \in BOOLEAN : HPingEnd(i, failed)
    \/ \E i \in Checkers : HStore(i)
    \/ \E i \in Checkers : HReturn(i)
    \/ \E i \in Checkers, registered \in BOOLEAN, hasErrors \in BOOLEAN :
           HCustom(i, registered, hasErrors)
    \/ HTick

----------------------------------------------------------------------------
(* Uncached health evaluation: kdbx HealthChecker.CheckDetailed with           *)
(* analyzePoolHealth, and dbx DB.Health.  Ratios are compared exactly.        *)

MaxPoolConns == 5      \* largest pool limit (MaxConns, MaxOpenConns)

\* PoolStats as a pool reports them: every connection is acquired, idle or
\* under construction; MaxConns = 0 is database/sql without a limit
PoolStatsValues ==
    {st \in [AcquiredConns : 0..MaxPoolConns, IdleConns : 0..MaxPoolConns,
             TotalConns : 0..MaxPoolConns, MaxConns : 0..MaxPoolConns] :
        /\ st.AcquiredConns + st.IdleConns <= st.TotalConns
        /\ st.TotalConns <= st.AcquiredConns + st.IdleConns + 1
        /\ st.MaxConns > 0 => st.TotalConns <= st.MaxConns}

\* variant: the utilization test also fires at exactly 80%
analyzePoolHealth_AtThreshold(stats) ==
    LET high == stats.MaxConns > 0 /\ 10 * stats.TotalConns >= 8 * stats.MaxConns
    IN  [status |-> IF high THEN "degraded" ELSE "healthy",
         issues |-> IF high THEN {"high utilization"} ELSE {}]

\* analyzePoolHealth: utilization = TotalConns / MaxConns (0 when MaxConns is 0)
analyzePoolHealth(stats) ==
    LET high == stats.MaxConns > 0 /\ 10 * stats.TotalConns > 8 * stats.MaxConns
    IN  [status |-> IF high THEN "degraded" ELSE "healthy",
         issues |-> (IF high THEN {"high utilization"} ELSE {})
                    \cup (IF stats.IdleConns = 0 /\ stats.TotalConns < stats.MaxConns
                          THEN {"no idle connections"} ELSE {})
                    \cup (IF stats.AcquiredConns = stats.TotalConns
                             /\ stats.TotalConns > 0
                          THEN {"all connections in use"} ELSE {})]

\* CheckDetailed, where failed says that db.HealthDetailed returned an error
CheckDetailed(failed, stats) ==
    LET poolHealth == analyzePoolHealth(stats)
        Status == IF failed THEN "unhealthy" ELSE "healthy"
    IN  IF poolHealth.status = "degraded" /\ Status = "healthy"
        THEN [Status |-> "degraded",
              Message |-> "database is accessible but connection pool may be stressed",
              pool_health |-> poolHealth]
        ELSE [Status |-> Status,
              Message |-> IF failed THEN "database readiness check failed"
                          ELSE "database is ready",
              pool_health |-> poolHealth]

\* dbx buildConnectionHealth: Utilization = InUse / maxOpen * 100, kept as the
\* fraction num/den of a percentage (0 when maxOpen is 0)
buildConnectionHealth(inUse, maxOpen) ==
    [InUse |-> inUse, MaxOpen |-> maxOpen,
     Utilization |-> IF maxOpen > 0 THEN <<inUse * 100, maxOpen>> ELSE <<0, 1>>]

\* hc.Connections.Utilization > 90.0
UtilizationAbove90(c) == c.Utilization[1] > 90 * c.Utilization[2]

\* the secondary pings of DB.Health: a replica or a pgxpool that is configured
\* and fails turns Healthy into Degraded
SecondaryPing(status, ping) ==
    IF ping = "fail" /\ status = "healthy" THEN "degraded" ELSE status

\* dbx DB.Health: the Status field of the HealthCheck it returns; replica and
\* pgxpool are "none" (not configured), "ok" or "fail"
Health(pingFailed, inUse, maxOpen, replica, pgxpool) ==
    LET s1 == IF pingFailed THEN "unhealthy" ELSE "healthy"
        s2 == IF UtilizationAbove90(buildConnectionHealth(inUse, maxOpen))
              THEN "degraded" ELSE s1
    IN  SecondaryPing(SecondaryPing(s2, replica), pgxpool)

NoProbe == [fn |-> "none", pingFailed |-> FALSE,
            stats |-> [AcquiredConns |-> 0, IdleConns |-> 0, TotalConns |-> 0,
                       MaxConns |-> 0],
            replica |-> "none", pgxpool |-> "none",
            Status |-> "healthy", issues |-> {}]

ProbeRest == <<stack, txs, signal, result, fnCalls, attempts, ctxDone, cfgRetry,
               call, raised, cb, cbLog, now, g, bk, hc, sp, ev, sd>>

\* a caller runs HealthChecker.CheckDetailed
DoCheckDetailed(failed, stats) ==
    /\ probe' = [NoProbe EXCEPT !.fn = "CheckDetailed", !.pingFailed = failed,
                                !.stats = stats,
                                !.Status = CheckDetailed(failed, stats).Status,
                                !.issues = CheckDetailed(failed, stats).pool_health.issues]
    /\ UNCHANGED ProbeRest

\* a caller runs dbx DB.Health; the sql.DB holds stats.AcquiredConns
\* connections in use under the limit stats.MaxConns
DoHealth(pingFailed, stats, replica, pgxpool) ==
    /\ probe' = [NoProbe EXCEPT !.fn = "Health", !.pingFailed = pingFailed,
                                !.stats = stats, !.replica = replica,
                                !.pgxpool = pgxpool,
                                !.Status = Health(pingFailed, stats.AcquiredConns,
                                                  stats.MaxConns, replica, pgxpool)]
    /\ UNCHANGED ProbeRest

ProbeNext ==
    \/ \E failed \in BOOLEAN, stats \in PoolStatsValues : DoCheckDetailed(failed, stats)
    \/ \E pingFailed \in BOOLEAN, stats \in PoolStatsValues,
          replica \in {"none", "ok", "fail"}, pgxpool \in {"none", "ok", "fail"} :
              DoHealth(pingFailed, stats, replica, pgxpool)

----------------------------------------------------------------------------
(* The kdbx Tx handle under manual control, the savepoint functions and      *)
(* NestedTransaction.  A savepoint name is the sequence of its bytes.        *)

MaxNameLen == 2        \* longest savepoint name enumerated byte by byte
MaxStatements == 3     \* statements sent on one transaction
MaxTxCalls == 2        \* Commit and Rollback calls made on one handle

\* the bytes on either side of every range validateSavepointName tests, and
\* the bytes of a space, '-' and ';'
NameBytes == {32, 45, 47, 48, 57, 58, 59, 64, 65, 90, 91, 95, 96, 97, 122, 123}

RECURSIVE NamesOfLen(_)
NamesOfLen(n) ==
    IF n = 0 THEN {<< >>}
    ELSE {Append(w, b) : w \in NamesOfLen(n - 1), b \in NameBytes}

\* "1abc", "sp; DROP TABLE users", "sp-name", "sp_1", "_tmp"
Name_1abc == <<49, 97, 98, 99>>
Name_sp_DROP == <<115, 112, 59, 32, 68, 82, 79, 80, 32, 84, 65, 66, 76, 69, 32,
                  117, 115, 101, 114, 115>>
Name_sp_dash_name == <<115, 112, 45, 110, 97, 109, 101>>
Name_sp_1 == <<115, 112, 95, 49>>
Name_tmp == <<95, 116, 109, 112>>

\* the names an application is taken to use
ExampleNames ==
    {<< >>, Name_1abc, Name_sp_DROP, Name_sp_dash_name, Name_sp_1, Name_tmp}

\* every name of up to MaxNameLen bytes, and the examples
SavepointNames == UNION {NamesOfLen(n) : n \in 0..MaxNameLen} \cup ExampleNames

\* variant: the first byte is tested like the bytes that follow it
validateSavepointName_DigitFirst(name) ==
    IF name = << >> THEN PlainError("savepoint name cannot be empty")
    ELSE IF \E i \in 1..Len(name) :
                ~(\/ (name[i] >= 97 /\ name[i] <= 122)
                  \/ (name[i] >= 65 /\ name[i] <= 90)
                  \/ (name[i] >= 48 /\ name[i] <= 57)
                  \/ name[i] = 95)
         THEN PlainError("savepoint name can only contain alphanumeric characters and underscores")
         ELSE Nil

\* validateSavepointName: 'a' = 97, 'z' = 122, 'A' = 65, 'Z' = 90, '0' = 48,
\* '9' = 57, '_' = 95
validateSavepointName(name) ==
    IF name = << >> THEN PlainError("savepoint name cannot be empty")
    ELSE IF ~(\/ (name[1] >= 97 /\ name[1] <= 122)
              \/ (name[1] >= 65 /\ name[1] <= 90)
              \/ name[1] = 95)
         THEN PlainError("savepoint name must start with a letter or underscore")
    ELSE IF \E i \in 2..Len(name) :
                ~(\/ (name[i] >= 97 /\ name[i] <= 122)
                  \/ (name[i] >= 65 /\ name[i] <= 90)
                  \/ (name[i] >= 48 /\ name[i] <= 57)
                  \/ name[i] = 95)
         THEN PlainError("savepoint name can only contain alphanumeric characters and underscores")
         ELSE Nil

ErrTxDone == Leaf("txdone", "", "sql: transaction has already been committed or rolled back")

\* what the driver answers on a transaction that is finished
ClosedErr(driver) == IF driver = "pgx" THEN ErrTxClosed ELSE ErrTxDone

\* db.Begin: a kdbx Tx over a pgx.Tx (pgxTxAdapter) or a *sql.Tx (sqlTxAdapter)
NewHandle(driver, name) ==
    [driver |-> driver, name |-> name, state |-> "open", commits |-> 0,
     rollbacks |-> 0, log |-> << >>, pc |-> "idle", op |-> "none", ret |-> Nil,
     pre |-> "open", base |-> 0, preCalls |-> 0, fnCalls |-> 0,
     fnOut |-> "none", fnErr |-> Nil]

\* an API call on the handle returned err; pre is the state it found
Returned(t, op, pre, err) ==
    [t EXCEPT !.op = op, !.pre = pre, !.ret = err, !.pc = "idle"]

\* history: a call that is not NestedTransaction begins
Fresh(t) ==
    [t EXCEPT !.base = Len(t.log), !.preCalls = t.commits + t.rollbacks,
              !.fnOut = "none", !.fnErr = Nil]

\* pgxTxAdapter.Commit / sqlTxAdapter.Commit; the driver answers cerr on an
\* open transaction
AdapterCommit(t, cerr) ==
    LET raw == IF t.state = "open" THEN cerr ELSE ClosedErr(t.driver)
        t2 == [t EXCEPT !.commits = @ + 1,
                        !.state = IF @ # "open" THEN @
                                  ELSE IF cerr = Nil THEN "committed" ELSE "aborted"]
    IN  Returned(t2, "Commit", t.state, WrapError(raw, "failed to commit transaction"))

\* variant: Rollback reports the driver's error on a finished transaction
AdapterRollback_ReportsClosed(t, rerr) ==
    LET raw == IF t.state = "open" THEN rerr ELSE ClosedErr(t.driver)
        t2 == [t EXCEPT !.rollbacks = @ + 1,
                        !.state = IF @ = "open" THEN "rolledback" ELSE @]
    IN  Returned(t2, "Rollback", t.state,
                 WrapError(raw, "failed to rollback transaction"))

\* pgxTxAdapter.Rollback / sqlTxAdapter.Rollback: err != nil && err != the
\* driver's closed-transaction sentinel
AdapterRollback(t, rerr) ==
    LET raw == IF t.state = "open" THEN rerr ELSE ClosedErr(t.driver)
        t2 == [t EXCEPT !.rollbacks = @ + 1,
                        !.state = IF @ = "open" THEN "rolledback" ELSE @]
    IN  Returned(t2, "Rollback", t.state,
                 IF raw # Nil /\ raw # ClosedErr(t.driver)
                 THEN WrapError(raw, "failed to rollback transaction")
                 ELSE Nil)

\* the error the adapter's Exec returns when the driver answers xerr
ExecResult(t, xerr) ==
    WrapError(IF t.state = "open" THEN xerr ELSE ClosedErr(t.driver),
              "transaction exec failed")

\* the adapter's Exec sends the statement cmd + name for the caller by
AdapterExec(t, by, cmd, name, xerr) ==
    [t EXCEPT !.log = Append(@, [by |-> by, cmd |-> cmd, name |-> name,
                                 failed |-> ExecResult(t, xerr) # Nil])]

\* the common body of the three savepoint methods: [t, err]
SavepointCommand(t, by, cmd, name, xerr) ==
    IF validateSavepointName(name) # Nil
    THEN [t |-> t, err |-> validateSavepointName(name)]
    ELSE [t |-> AdapterExec(t, by, cmd, name, xerr), err |-> ExecResult(t, xerr)]

\* variant: Savepoint builds its statement without validating the name
Savepoint_Unvalidated(t, by, name, xerr) ==
    [t |-> AdapterExec(t, by, "SAVEPOINT ", name, xerr), err |-> ExecResult(t, xerr)]

\* savepointTx.Savepoint
Savepoint(t, by, name, xerr) == SavepointCommand(t, by, "SAVEPOINT ", name, xerr)

\* savepointTx.RollbackToSavepoint
RollbackToSavepoint(t, by, name, xerr) ==
    SavepointCommand(t, by, "ROLLBACK TO SAVEPOINT ", name, xerr)

\* savepointTx.ReleaseSavepoint
ReleaseSavepoint(t, by, name, xerr) ==
    SavepointCommand(t, by, "RELEASE SAVEPOINT ", name, xerr)

\* NestedTransaction up to the call of fn
NestedTransactionEnter(t, name, xerr) ==
    LET r == Savepoint(t, "NestedTransaction", name, xerr) IN
    IF r.err # Nil
    THEN Returned(r.t, "NestedTransaction", t.state,
                  WrapError(r.err, "failed to create savepoint"))
    ELSE [r.t EXCEPT !.pc = "fn", !.op = "NestedTransaction", !.pre = t.state,
                     !.ret = Nil, !.fnCalls = @ + 1, !.fnOut = "running"]

\* variant: a failed RELEASE SAVEPOINT is not reported
NestedTransactionReturn_DropsReleaseError(t, name, e, xerr) ==
    IF e # Nil
    THEN LET r == RollbackToSavepoint(t, "NestedTransaction", name, xerr) IN
         Returned(r.t, "NestedTransaction",
                  t.pre,
                  IF r.err # Nil
                  THEN WrapError(r.err, "failed to rollback to savepoint") ELSE e)
    ELSE LET r == ReleaseSavepoint(t, "NestedTransaction", name, xerr) IN
         Returned(r.t, "NestedTransaction",
                  t.pre, Nil)

\* variant: an error from fn rolls the whole transaction back
NestedTransactionReturn_RollsBackParent(t, name, e, xerr) ==
    IF e # Nil
    THEN Returned(AdapterRollback(t, Nil), "NestedTransaction", t.pre, e)
    ELSE LET r == ReleaseSavepoint(t, "NestedTransaction", name, xerr) IN
         Returned(r.t, "NestedTransaction",
                  t.pre,
                  IF r.err # Nil
                  THEN WrapError(r.err, "failed to release savepoint") ELSE Nil)

\* NestedTransaction from the return of fn with error e
NestedTransactionReturn(t, name, e, xerr) ==
    IF e # Nil
    THEN LET r == RollbackToSavepoint(t, "NestedTransaction", name, xerr) IN
         Returned(r.t, "NestedTransaction",
                  t.pre,
                  IF r.err # Nil
                  THEN WrapError(r.err, "failed to rollback to savepoint") ELSE e)
    ELSE LET r == ReleaseSavepoint(t, "NestedTransaction", name, xerr) IN
         Returned(r.t, "NestedTransaction",
                  t.pre,
                  IF r.err # Nil
                  THEN WrapError(r.err, "failed to release savepoint") ELSE Nil)

\* what the driver answers to a statement
InFailedTx == PgError("25P02", "current transaction is aborted")
ExecErrs == {Nil, InFailedTx, Deadlock}
NestedFnErrs == {Nil, AppError, ExecConflict}

SavepointRest == <<stack, txs, signal, result, fnCalls, attempts, ctxDone, cfgRetry,
                   call, raised, cb, cbLog, now, g, bk, hc, probe, ev, sd>>

\* the application commits the handle
ManualCommit(cerr) ==
    /\ sp.pc = "idle" /\ sp.commits + sp.rollbacks < MaxTxCalls
    /\ sp' = AdapterCommit(Fresh(sp), cerr)
    /\ UNCHANGED SavepointRest

\* the application rolls the handle back
ManualRollback(rerr) ==
    /\ sp.pc = "idle" /\ sp.commits + sp.rollbacks < MaxTxCalls
    /\ sp' = AdapterRollback(Fresh(sp), rerr)
    /\ UNCHANGED SavepointRest

\* the application calls one of the savepoint methods of WithSavepoint(tx)
ManualSavepoint(method, xerr) ==
    /\ sp.pc = "idle" /\ Len(sp.log) < MaxStatements
    /\ LET t == Fresh(sp)
           r == CASE method = "Savepoint" -> Savepoint(t, "api", sp.name, xerr)
                  [] method = "RollbackToSavepoint"
                         -> RollbackToSavepoint(t, "api", sp.name, xerr)
                  [] method = "ReleaseSavepoint"
                         -> ReleaseSavepoint(t, "api", sp.name, xerr)
       IN  sp' = Returned(r.t, method, sp.state, r.err)
    /\ UNCHANGED SavepointRest

\* the application calls NestedTransaction(ctx, tx, name, fn)
NestedCallEnter(xerr) ==
    /\ sp.pc = "idle" /\ Len(sp.log) < MaxStatements - 1
    /\ sp' = NestedTransactionEnter(Fresh(sp), sp.name, xerr)
    /\ UNCHANGED SavepointRest

\* fn runs a statement of its own on the transaction it was given
NestedFnExec ==
    /\ sp.pc = "fn" /\ Len(sp.log) < MaxStatements - 1
    /\ sp' = AdapterExec(sp, "fn", "INSERT", << >>, Nil)
    /\ UNCHANGED SavepointRest

\* fn returns e and NestedTransaction runs to its end
NestedFnReturn(e, xerr) ==
    /\ sp.pc = "fn"
    /\ sp' = NestedTransactionReturn(
                 [sp EXCEPT !.fnOut = IF e = Nil THEN "nil" ELSE "err", !.fnErr = e],
                 sp.name, e, xerr)
    /\ UNCHANGED SavepointRest

\* fn panics: NestedTransaction has no deferred function
NestedFnPanic ==
    /\ sp.pc = "fn"
    /\ sp' = [sp EXCEPT !.pc = "idle", !.fnOut = "panic"]
    /\ UNCHANGED SavepointRest

NoSavepointTx == NewHandle("pgx", << >>)

SavepointInit ==
    \E driver \in {"pgx", "sql"}, name \in ExampleNames : sp = NewHandle(driver, name)

\* the savepoint methods called with every name
NamesInit == \E name \in SavepointNames : sp = NewHandle("pgx", name)

NamesNext ==
    \E method \in {"Savepoint", "RollbackToSavepoint", "ReleaseSavepoint"},
       xerr \in ExecErrs : ManualSavepoint(method, xerr)

SavepointNext ==
    \/ \E cerr \in CommitErrs : ManualCommit(cerr)
    \/ \E rerr \in {Nil, PlainError("connection refused")} : ManualRollback(rerr)
    \/ \E method \in {"Savepoint", "RollbackToSavepoint", "ReleaseSavepoint"},
          xerr \in ExecErrs : ManualSavepoint(method, xerr)
    \/ \E xerr \in ExecErrs : NestedCallEnter(xerr)
    \/ NestedFnExec
    \/ \E e \in NestedFnErrs, xerr \in ExecErrs : NestedFnReturn(e, xerr)
    \/ NestedFnPanic

----------------------------------------------------------------------------
(* kdbx.WrapError applied to an error and then to its own result *)

\* the sentinels of package kdbx: errors that carry a code and have no cause
ErrUniqueViolation == Leaf("kerr", "ALREADY_EXISTS", "unique constraint violation")
ErrContextTimeout == Leaf("kerr", "TIMEOUT", "operation timeout")
PackageSentinels == {ErrUniqueViolation, ErrDeadlock, ErrContextTimeout}

\* errors of the drivers and of the standard library
DriverErrors ==
    {PgError("23505", "duplicate key value violates unique constraint"),
     SerializationFailure, Deadlock, InFailedTx,
     PgError("53300", "sorry, too many clients already"),
     MySQLError("1062", "Duplicate entry"), MySQLError("1213", "Deadlock found"),
     MySQLError("1205", "Lock wait timeout exceeded"),
     Leaf("norows", "", "no rows in result set"), ErrTxDone, ErrTxClosed,
     Leaf("conndone", "", "sql: connection is already closed"),
     CtxCanceled, CtxDeadline, AppError,
     PgError("08006", "connection failure"),
     PgError("08000", "connection exception")}

\* a driver error and the context error that caused it, in one chain:
\* fmt.Errorf("%w: %w", driverErr, ctx.Err())
JoinedWithCtx ==
    {FmtWrap(d \o c, "query interrupted") :
        d \in {Deadlock, SerializationFailure, MySQLError("1213", "Deadlock found"),
               PgError("08006", "connection failure")},
        c \in {CtxCanceled, CtxDeadline}}

\* the errors handed to WrapError: driver errors, bare or inside fmt.Errorf
\* or kerrors.Wrap, and the package's sentinels
WrapInputs ==
    DriverErrors
    \cup {FmtWrap(e, "query failed") : e \in DriverErrors}
    \cup {Wrap(e, "INTERNAL_ERROR", "repository failure") : e \in DriverErrors}
    \cup PackageSentinels
    \cup JoinedWithCtx

WrapMessages == {"transaction exec failed", "failed to commit transaction",
                 "maximum retry attempts exceeded"}

DbxOperations == {"query", "exec"}

NoEval == [e |-> Nil, stage |-> 0, w1 |-> Nil, w2 |-> Nil, d |-> Nil]

EvalRest == <<stack, txs, signal, result, fnCalls, attempts, ctxDone, cfgRetry,
              call, raised, cb, cbLog, now, g, bk, hc, probe, sp, sd>>

\* a caller classifies the error it got
Classify(m1) ==
    /\ ev.stage = 0
    /\ ev' = [ev EXCEPT !.stage = 1, !.w1 = WrapError(ev.e, m1)]
    /\ UNCHANGED EvalRest

\* a caller further up classifies the classified error again
Reclassify(m2) ==
    /\ ev.stage = 1
    /\ ev' = [ev EXCEPT !.stage = 2, !.w2 = WrapError(ev.w1, m2)]
    /\ UNCHANGED EvalRest

\* a caller of package dbx classifies the same error
WrapDB(operation) ==
    /\ ev.d = Nil
    /\ ev' = [ev EXCEPT !.d = wrapDBError(ev.e, operation)]
    /\ UNCHANGED EvalRest

EvalInit == \E e \in WrapInputs : ev = [NoEval EXCEPT !.e = e]

EvalNext ==
    \/ \E m1 \in WrapMessages : Classify(m1)
    \/ \E m2 \in WrapMessages : Reclassify(m2)
    \/ \E operation \in DbxOperations : WrapDB(operation)

----------------------------------------------------------------------------
(* kdbx Shutdown and Close of PostgresDB and MySQLDB.  Close runs its body   *)
(* inside closeOnce.Do; sync.Once.Do returns only when the one call of the   *)
(* body has returned, also to a caller that did not run it.  Closing a pool  *)
(* waits until every connection in use has been given back.                  *)

MaxBusyConns == 2      \* connections in use when Shutdown is called

\* the pool a database closes: MySQLDB.db, PostgresDB.pool, PostgresDB.stdDB
CloseTargets == {"mysql.db", "postgres.pool", "postgres.stdDB"}

ErrCloseFailed == PlainError("close failed")

\* a database in use: busy connections, closeOnce not yet used; closeErr is
\* what sql.DB.Close will answer (pgxpool.Pool.Close returns nothing)
NewDatabase(target, busy, closeErr) ==
    [target |-> target, busy |-> busy, closeErr |-> closeErr,
     once |-> "new", by |-> "none", closed |-> FALSE,
     ctx |-> "live", main |-> "idle", ret |-> Nil, ctxTaken |-> FALSE,
     go |-> "none", goRes |-> Nil, chanFull |-> FALSE, chanVal |-> Nil]

NoShutdown == NewDatabase("mysql.db", 0, Nil)

ShutdownCtxErr(d) == IF d.ctx = "canceled" THEN CtxCanceled ELSE CtxDeadline

\* the value Close returns to the caller whose call ran the body
CloseResult(d) == IF d.target = "postgres.pool" THEN Nil ELSE d.closeErr

ShutdownRest == <<stack, txs, signal, result, fnCalls, attempts, ctxDone, cfgRetry,
                  call, raised, cb, cbLog, now, g, bk, hc, probe, sp, ev>>

\* Shutdown(ctx): done := make(chan error, 1); go func() { done <- db.Close() }()
ShutdownCall ==
    /\ sd.main = "idle"
    /\ sd' = [sd EXCEPT !.main = "select", !.go = "start"]
    /\ UNCHANGED ShutdownRest

\* the context given to Shutdown is cancelled or reaches its deadline
ShutdownCtxDone(how) ==
    /\ sd.ctx = "live" /\ sd.main # "returned"
    /\ sd' = [sd EXCEPT !.ctx = how]
    /\ UNCHANGED ShutdownRest

\* a query ends and its connection goes back to the pool
ConnRelease ==
    /\ sd.busy > 0
    /\ sd' = [sd EXCEPT !.busy = @ - 1]
    /\ UNCHANGED ShutdownRest

\* the goroutine calls db.Close(): closeOnce.Do runs the body, or waits for
\* the call that is running it, or returns at once when it has been run
GoClose ==
    /\ sd.go = "start"
    /\ sd' = CASE sd.once = "new" ->
                    [sd EXCEPT !.once = "running", !.by = "go", !.go = "closing"]
               [] sd.once = "running" -> [sd EXCEPT !.go = "blocked"]
               [] sd.once = "done" -> [sd EXCEPT !.go = "send", !.goRes = Nil]
    /\ UNCHANGED ShutdownRest

\* the body of Close ends: every connection is back and the pool is closed
CloseFinish ==
    /\ sd.once = "running" /\ sd.busy = 0
    /\ sd' = IF sd.by = "go"
             THEN [sd EXCEPT !.once = "done", !.closed = TRUE,
                             !.go = "send", !.goRes = CloseResult(sd)]
             ELSE [sd EXCEPT !.once = "done", !.closed = TRUE,
                             !.main = "returned", !.ret = ShutdownCtxErr(sd)]
    /\ UNCHANGED ShutdownRest

\* closeOnce.Do lets the waiting goroutine go on; its Close returns a nil err
GoResume ==
    /\ sd.go = "blocked" /\ sd.once = "done"
    /\ sd' = [sd EXCEPT !.go = "send", !.goRes = Nil]
    /\ UNCHANGED ShutdownRest

\* done <- result
GoSend ==
    /\ sd.go = "send"
    /\ sd' = [sd EXCEPT !.go = "exit", !.chanFull = TRUE, !.chanVal = sd.goRes]
    /\ UNCHANGED ShutdownRest

\* select: case err := <-done
SelectDone ==
    /\ sd.main = "select" /\ sd.chanFull
    /\ sd' = [sd EXCEPT !.main = "returned", !.ret = sd.chanVal, !.chanFull = FALSE]
    /\ UNCHANGED ShutdownRest

\* select: case <-ctx.Done(): _ = db.Close(); return ctx.Err()
SelectCtxDone(d) ==
    CASE d.once = "done" ->
             [d EXCEPT !.ctxTaken = TRUE, !.main = "returned",
                       !.ret = ShutdownCtxErr(d)]
      [] d.once = "running" -> [d EXCEPT !.ctxTaken = TRUE, !.main = "blocked"]
      [] d.once = "new" ->
             [d EXCEPT !.ctxTaken = TRUE, !.main = "closing",
                       !.once = "running", !.by = "main"]

SelectCtx ==
    /\ sd.main = "select" /\ sd.ctx # "live"
    /\ sd' = SelectCtxDone(sd)
    /\ UNCHANGED ShutdownRest

\* closeOnce.Do lets Shutdown go on once the goroutine's Close has ended
MainResume ==
    /\ sd.main = "blocked" /\ sd.once = "done"
    /\ sd' = [sd EXCEPT !.main = "returned", !.ret = ShutdownCtxErr(sd)]
    /\ UNCHANGED ShutdownRest

ShutdownInit ==
    \E target \in CloseTargets, busy \in 0..MaxBusyConns,
       closeErr \in {Nil, ErrCloseFailed} :
        /\ target = "postgres.pool" => closeErr = Nil
        /\ sd = NewDatabase(target, busy, closeErr)

ShutdownNext ==
    \/ ShutdownCall
    \/ \E how \in {"canceled", "deadline"} : ShutdownCtxDone(how)
    \/ ConnRelease
    \/ GoClose
    \/ CloseFinish
    \/ GoResume
    \/ GoSend
    \/ SelectDone
    \/ SelectCtx
    \/ MainResume

----------------------------------------------------------------------------
(* Specifications *)

TxIdle ==
    /\ stack = << >> /\ txs = << >> /\ signal = Running /\ result = NoOutcome
    /\ fnCalls = 0 /\ attempts = << >> /\ ctxDone = "live" /\ cfgRetry = 0
    /\ call = NoTopCall(0) /\ raised = [v |-> "", calls |-> 0]
BreakerIdle == cb = NewCircuitBreaker(1, 0) /\ cbLog = NoCall /\ now = 0
ConcIdle == g = [i \in Goroutines |-> IdleGoroutine]
BackoffIdle == bk = NoBackoff
HealthIdle == hc = NewHealthChecker(1, {}, 0)
ProbeIdle == probe = NoProbe
SavepointIdle == sp = NoSavepointTx
EvalIdle == ev = NoEval
ShutdownIdle == sd = NoShutdown
OthersIdle == ProbeIdle /\ SavepointIdle /\ EvalIdle /\ ShutdownIdle

\* the transaction helpers
Init == TxInit /\ BreakerIdle /\ ConcIdle /\ BackoffIdle /\ HealthIdle /\ OthersIdle
Next == TxNext
Spec == Init /\ [][Next]_vars

\* the circuit breaker used by one caller at a time
InitBreaker ==
    TxIdle /\ BreakerInit /\ ConcIdle /\ BackoffIdle /\ HealthIdle /\ OthersIdle
SpecBreaker == InitBreaker /\ [][BreakerNext]_vars

\* the circuit breaker shared by goroutines
InitConc ==
    TxIdle /\ ConcInit /\ cbLog = NoCall /\ BackoffIdle /\ HealthIdle /\ OthersIdle
SpecConc == InitConc /\ [][ConcNext]_vars

\* the backoff functions over their inputs
InitBackoff ==
    TxIdle /\ BreakerIdle /\ ConcIdle /\ BackoffIdle /\ HealthIdle /\ OthersIdle
SpecBackoff == InitBackoff /\ [][BackoffNext]_vars

\* the health checker used by one caller at a time
InitHealthSeq ==
    /\ TxIdle /\ BreakerIdle /\ ConcIdle /\ BackoffIdle /\ OthersIdle
    /\ \E d \in 0..MaxCacheBound : hc = NewHealthChecker(d, {1}, MaxHealthCalls)
SpecHealthSeq == InitHealthSeq /\ [][HealthNext]_vars

\* the health checker shared by goroutines
InitHealth ==
    /\ TxIdle /\ BreakerIdle /\ ConcIdle /\ BackoffIdle /\ OthersIdle
    /\ \E d \in 0..MaxCacheBound : hc = NewHealthChecker(d, Checkers, MaxSharedCalls)
SpecHealth == InitHealth /\ [][HealthNext]_vars

\* the uncached health evaluations over their inputs
InitProbe ==
    /\ TxIdle /\ BreakerIdle /\ ConcIdle /\ BackoffIdle /\ HealthIdle /\ ShutdownIdle
    /\ ProbeIdle /\ SavepointIdle /\ EvalIdle
SpecProbe == InitProbe /\ [][ProbeNext]_vars

\* the kdbx Tx handle and its savepoints
InitSavepoint ==
    /\ TxIdle /\ BreakerIdle /\ ConcIdle /\ BackoffIdle /\ HealthIdle /\ ShutdownIdle
    /\ ProbeIdle /\ SavepointInit /\ EvalIdle
SpecSavepoint == InitSavepoint /\ [][SavepointNext]_vars

\* the savepoint methods over the names they may be given
InitNames ==
    /\ TxIdle /\ BreakerIdle /\ ConcIdle /\ BackoffIdle /\ HealthIdle /\ ShutdownIdle
    /\ ProbeIdle /\ NamesInit /\ EvalIdle
SpecNames == InitNames /\ [][NamesNext]_vars

\* WrapError over the errors it may be given
InitClassify ==
    /\ TxIdle /\ BreakerIdle /\ ConcIdle /\ BackoffIdle /\ HealthIdle /\ ShutdownIdle
    /\ ProbeIdle /\ SavepointIdle /\ EvalInit
SpecClassify == InitClassify /\ [][EvalNext]_vars

\* Shutdown of a database in use
InitShutdown ==
    /\ TxIdle /\ BreakerIdle /\ ConcIdle /\ BackoffIdle /\ HealthIdle
    /\ ProbeIdle /\ SavepointIdle /\ EvalIdle /\ ShutdownInit
SpecShutdown == InitShutdown /\ [][ShutdownNext]_vars

----------------------------------------------------------------------------
(* Properties of the transaction helpers *)

TxIds == 1..Len(txs)
Finalizations(id) == txs[id].commits + txs[id].rollbacks

\* C1: when fn of SQLTransactor.Atomically calls Atomically again with the
\* context it was handed, the whole nested call begins exactly one transaction
\* and issues exactly one commit or rollback.
C1_NestedAtomicallyOneTx ==
    (call.h = "Atomically" /\ result.k # "none" /\ fnCalls >= 2) =>
        /\ Len(txs) = 1
        /\ Finalizations(1) = 1

\* C2: Atomically and kdbx WithTransaction commit the transaction they began
\* if and only if fn returned nil without panicking; when fn returned an error
\* or panicked the transaction is rolled back and never committed.
C2_CommitIffFnNil ==
    \A id \in TxIds :
        txs[id].by \in {"Atomically"} \cup KdbxHelpers =>
            /\ txs[id].commits >= 1 <=> txs[id].fnOut = "nil"
            /\ txs[id].fnOut \in {"err", "panic"} =>
                   /\ txs[id].rollbacks >= 1
                   /\ txs[id].state = "rolledback"

C2_Witness ==
    /\ call.h = "KdbxWithTransaction"
    /\ result = Ret(Nil)
    /\ Len(txs) = 2
    /\ txs[1].fnOut = "err" /\ txs[1].state = "rolledback"
    /\ txs[2].fnOut = "nil" /\ txs[2].state = "committed"

\* C3: a panic raised by fn inside Atomically, kdbx WithTransaction or
\* WithTransactionOptions rolls the transaction back and reaches the caller as
\* a panic with the same value; it is never returned as an error and fn is
\* never invoked again.
C3_PanicPropagates ==
    (raised.v # "" /\ call.h \in {"Atomically"} \cup KdbxHelpers) =>
        /\ fnCalls = raised.calls
        /\ \A i \in 1..Len(stack) : stack[i].pc = "fn"
        /\ IF stack = << >>
           THEN result = Panic(raised.v)
           ELSE result.k = "none" /\ signal = Panic(raised.v)
        /\ \A id \in TxIds : txs[id].fnOut = "panic" =>
               txs[id].state = "rolledback" /\ txs[id].commits = 0

C3_Witness ==
    /\ call.h = "KdbxWithTransactionOptions"
    /\ raised.calls = 2
    /\ result = Panic("p2")
    /\ txs[2].state = "rolledback"

\* C4: every transaction begun by dbx WithTx, dbx WithPgxTx or kpgx RunInTx has
\* Commit or Rollback called on it before control leaves the helper, whether
\* fn returns nil, returns an error or panics.
C4_AlwaysFinalized ==
    \A id \in TxIds :
        (txs[id].by \in {"DbxWithTx", "DbxWithPgxTx", "RunInTx"}
         /\ txs[id].fnOut # "running") => Finalizations(id) >= 1

\* the transaction whose commit decides the result of the top-level call
DecidingTx == IF call.h \in CtxHelpers THEN 1 ELSE Len(txs)

\* C5: whenever Commit fails, Atomically, kpgx RunInTx and kdbx WithTransaction
\* return a non-nil error: a nil return means the commit succeeded.
C5_NilOnlyAfterCommit ==
    (call.h \in {"Atomically", "RunInTx"} \cup KdbxHelpers
     /\ result.k = "ret" /\ result.err = Nil) =>
        /\ txs # << >>
        /\ txs[DecidingTx].state = "committed"

----------------------------------------------------------------------------
(* Properties of the circuit breaker *)

\* C6: after maxFailures consecutive failing Execute calls on a Closed breaker
\* the state is Open, and every Execute made on an Open breaker before
\* resetTimeout has elapsed since the last failure returns
\* ErrCircuitBreakerOpen without invoking the operation.
C6_OpensAndRejects ==
    /\ cbLog.run >= cb.maxFailures => cb.state = "Open"
    /\ (cbLog.op = "Execute" /\ cbLog.pre = "Open" /\ cbLog.since < cb.resetTimeout) =>
           /\ cbLog.ret = "ErrCircuitBreakerOpen"
           /\ ~cbLog.invoked
           /\ cb.state = "Open"

C6_Witness ==
    /\ cb.maxFailures = 3 /\ cb.resetTimeout = 2
    /\ cbLog.op = "Execute" /\ cbLog.pre = "Open" /\ cbLog.since = 1
    /\ cbLog.ret = "ErrCircuitBreakerOpen"
    /\ cb.failures = 3

\* C7: once more than resetTimeout has elapsed since the last failure, the next
\* Execute on an Open breaker moves it to HalfOpen and invokes the operation;
\* if the operation succeeds the breaker is Closed with a failure count of 0.
C7_HalfOpenThenClosed ==
    (cbLog.op = "Execute" /\ cbLog.pre = "Open" /\ cbLog.since > cb.resetTimeout) =>
        /\ cbLog.invoked
        /\ cbLog.mid = "HalfOpen"
        /\ cbLog.ret = "nil" => (cb.state = "Closed" /\ cb.failures = 0)

C7_Witness ==
    /\ cbLog.op = "Execute" /\ cbLog.pre = "Open" /\ cbLog.mid = "HalfOpen"
    /\ cbLog.since > cb.resetTimeout
    /\ cbLog.ret = "nil"
    /\ cb.state = "Closed" /\ cb.failures = 0 /\ cb.maxFailures = 2

\* C8: for every maxFailures >= 1, an operation that fails while the breaker is
\* HalfOpen puts the breaker back in Open.
C8_HalfOpenFailureReopens ==
    (cbLog.op = "Execute" /\ cbLog.mid = "HalfOpen" /\ cbLog.ret = "err") =>
        cb.state = "Open"

RECURSIVE SumFailed(_)
SumFailed(n) == IF n = 0 THEN 0 ELSE g[n].failed + SumFailed(n - 1)

Quiescent == \A i \in Goroutines : g[i].pc = "idle"

\* C9: Execute is safe under concurrent calls: k concurrently failing calls on
\* a Closed breaker raise the failure count by exactly k, and the breaker is
\* Open whenever the count has reached maxFailures.
C9_ConcurrentCountExact ==
    Quiescent =>
        /\ (\A i \in Goroutines : g[i].other = 0) =>
               cb.failures = SumFailed(NumGoroutines)
        /\ ThresholdReached(cb) => cb.state = "Open"

----------------------------------------------------------------------------
(* Properties of the backoff functions *)

\* C10: for every attempt >= 0 and every configuration with
\* 0 <= initial backoff <= maximum backoff, the delay returned by
\* calculateBackoff and calculateDelay is at least 0 and at most the
\* configured maximum backoff, jitter included.
C10_DelayWithinBounds ==
    (bk.fn # "none" /\ ~bk.panicked) => (0 <= bk.out /\ bk.out <= bk.max)

----------------------------------------------------------------------------
(* Properties of the retry loops *)

RetryHelpers == KdbxHelpers \cup {"DbxWithTx", "DbxWithPgxTx"}

Max0(n) == IF n > 0 THEN n ELSE 0

\* C11 (as stated): with a budget of MaxAttempts (Config.RetryAttempts in kdbx,
\* Config.MaxRetries in dbx), fn is invoked at most MaxAttempts times in total.
C11_AtMostBudgetInvocations ==
    (call.h \in RetryHelpers /\ call.n >= 1) => fnCalls <= call.n

\* C11 (amended): the budget counts the retries that follow the first attempt:
\* fn is invoked, and attempts are made, at most budget + 1 times (a budget
\* that is not positive counting as 0), and once that many attempts have ended
\* the helper has returned instead of waiting for another one.
C11_AtMostBudgetPlusOne ==
    call.h \in RetryHelpers =>
        /\ fnCalls <= Max0(call.n) + 1
        /\ Len(attempts) <= Max0(call.n) + 1
        /\ Len(attempts) = Max0(call.n) + 1 =>
               (stack = << >> /\ result.k = "ret")

C11_Witness ==
    /\ call.h = "KdbxWithTransaction" /\ call.n = 2
    /\ fnCalls = 3 /\ Len(attempts) = 3
    /\ \A i \in 1..3 : attempts[i] = Attempt("fn", ExecConflict)
    /\ result.k = "ret" /\ result.err # Nil

\* the kinds the retry policy treats as transient
RetryableKinds == {"CONFLICT", "UNAVAILABLE", "TIMEOUT"}

\* the kind of an error: the code it carries, or else the code WrapError
\* classifies it under
Kind(err) ==
    IF ErrAs(err, "kerr") # 0 THEN GetCode(err) ELSE GetCode(WrapError(err, ""))

\* C12: an error from fn or from commit whose kind is not Conflict, Unavailable
\* or Timeout (context.Canceled in particular) ends the retry loop at once: no
\* backoff wait follows it and no further attempt is made.
C12_NonRetryableEndsLoop ==
    call.h \in RetryHelpers =>
        /\ \A i \in 1..Len(stack) :
               stack[i].pc = "sleep" => Kind(stack[i].lastErr) \in RetryableKinds
        /\ \A i \in 1..(Len(attempts) - 1) :
               Kind(attempts[i].err) \in RetryableKinds

\* a helper is waiting out a backoff delay while its context is done
WaitingWithCtxDone == stack # << >> /\ Top.pc = "sleep" /\ ctxDone # "live"

\* C13: if the context becomes done while a retry is waiting out its backoff
\* delay, the wait is one that the context ends (it does not run to the full
\* delay), and the step that leaves it returns an error for the cancellation
\* without invoking fn again.
C13_BackoffObservesCtx ==
    [][WaitingWithCtxDone =>
          /\ SleepObservesCtx(Top.h)
          /\ fnCalls' = fnCalls
          /\ result'.k = "ret"
          /\ ErrIs(result'.err, "canceled") \/ ErrIs(result'.err, "deadline")]_vars

\* the attempt that ended last, and whether the context's error was returned
LastAttempt == attempts[Len(attempts)]
ReturnedCtxErr ==
    /\ result.k = "ret"
    /\ ErrIs(result.err, "canceled") \/ ErrIs(result.err, "deadline")

\* the driver's error at the root of a chain
Cause(err) == IF err = Nil THEN Nil ELSE << err[Len(err)] >>

\* the attempts on record that began a transaction
TxAttempts == Cardinality({i \in 1..Len(attempts) : attempts[i].src # "begin"})

\* C14: when Commit fails with a driver error of kind Conflict, Unavailable or
\* Timeout and attempts remain, the helper goes on to another attempt (unless
\* the context ends it); every attempt begins a transaction of its own for fn,
\* and Commit is issued at most once on any transaction.
C14_CommitFailureRetriesWholeFn ==
    call.h \in RetryHelpers =>
        /\ \A id \in TxIds : txs[id].commits <= 1
        /\ fnCalls = Len(txs)
        /\ (/\ attempts # << >>
            /\ LastAttempt.src = "commit"
            /\ Kind(Cause(LastAttempt.err)) \in RetryableKinds
            /\ Len(attempts) < call.n) =>
               (result.k = "none" \/ ReturnedCtxErr \/ Len(txs) > TxAttempts)

\* the number of attempts after which the loop of helper h gives up
AttemptLimit(h, n) == IF h = "DbxWithPgxTx" THEN n ELSE n + 1

\* a classified error: one that carries a code of the taxonomy
Classified(err) == ErrAs(err, "kerr") # 0

\* every attempt of the budget was made and failed with a classified error of
\* a retryable kind
BudgetUsedUp ==
    /\ call.h \in RetryHelpers /\ call.n >= 1
    /\ result.k = "ret"
    /\ Len(attempts) = AttemptLimit(call.h, call.n)
    /\ \A i \in 1..Len(attempts) :
           Classified(attempts[i].err) /\ Kind(attempts[i].err) \in RetryableKinds

\* err wraps inner: inner is a proper tail of the chain of err
Wraps(err, inner) ==
    /\ Len(err) > Len(inner)
    /\ SubSeq(err, Len(err) - Len(inner) + 1, Len(err)) = inner

\* C15: when every attempt failed with a classified Conflict, Unavailable or
\* Timeout error,
\* the error returned once the budget is used up has the kind of the last
\* attempt's error and wraps that error, so that it differs from the error of
\* a single failed attempt.
C15_ExhaustedKeepsKindAndWraps ==
    BudgetUsedUp =>
        /\ Kind(result.err) = Kind(LastAttempt.err)
        /\ Wraps(result.err, LastAttempt.err)

\* kdbx WithTransaction returned an error that reads as Conflict, Unavailable
\* or Timeout
ReturnedRetryableKind ==
    /\ call.h \in KdbxHelpers
    /\ result.k = "ret"
    /\ Classified(result.err)
    /\ GetCode(result.err) \in RetryableKinds

\* C16 (as stated): whenever kdbx WithTransaction returns an error whose kind
\* is Conflict, Unavailable or Timeout, the whole attempt budget has been used.
C16_RetryableKindOnlyAfterBudget ==
    (ReturnedRetryableKind /\ call.n >= 1) => Len(attempts) >= call.n

\* C16 (amended): whenever kdbx WithTransaction returns an error whose kind is
\* Conflict, Unavailable or Timeout, either every attempt of the budget has
\* been made, or the context's deadline passed and the error returned is the
\* Timeout that wraps context.DeadlineExceeded.
C16_RetryableKindAfterBudgetOrDeadline ==
    ReturnedRetryableKind =>
        \/ Len(attempts) = Max0(call.n) + 1
        \/ /\ ctxDone = "deadline"
           /\ ErrIs(result.err, "deadline")
           /\ GetCode(result.err) = "TIMEOUT"

C16_Witness ==
    /\ ReturnedRetryableKind
    /\ call.n = 2 /\ Len(attempts) = 3 /\ fnCalls = 3
    /\ ctxDone = "live"
    /\ GetCode(result.err) = "CONFLICT"

\* the call has ended and every attempt on record went as the scenario says:
\* fn failed with a classified Conflict error on the first and the second
\* attempt and succeeded, commit included, on the third; the context stayed
\* live and the driver began every transaction
FailsTwiceThenSucceeds ==
    /\ call.h \in KdbxHelpers
    /\ result.k # "none" /\ raised.v = "" /\ ctxDone = "live"
    /\ attempts # << >>
    /\ \A i \in 1..Len(attempts) :
           /\ i <= 2 => attempts[i] = Attempt("fn", ExecConflict)
           /\ i >= 3 => attempts[i] = Attempt("commit", Nil)

\* C17: with an attempt budget of 3 (three attempts in all, or three retries),
\* a fn that fails twice with a classified Conflict error and then succeeds is
\* invoked exactly 3 times: three transactions are begun, the first two are
\* rolled back, the third is committed, and the helper returns nil.
C17_FailTwiceThenCommit ==
    (FailsTwiceThenSucceeds /\ call.n \in {2, 3}) =>
        /\ fnCalls = 3
        /\ Len(attempts) = 3
        /\ Len(txs) = 3
        /\ \A id \in {1, 2} :
               /\ txs[id].state = "rolledback"
               /\ txs[id].rollbacks = 1 /\ txs[id].commits = 0
        /\ txs[3].state = "committed"
        /\ txs[3].commits = 1 /\ txs[3].rollbacks = 0
        /\ result = Ret(Nil)

C17_Witness ==
    /\ call.h = "KdbxWithTransaction" /\ call.n = 3
    /\ FailsTwiceThenSucceeds
    /\ fnCalls = 3 /\ Len(txs) = 3
    /\ txs[3].state = "committed"
    /\ result = Ret(Nil)

----------------------------------------------------------------------------
(* Properties of the health checker *)

\* the Timestamp of the result a recorded Check call returned
TimestampOf(c) == hc.objs[c.obj].Timestamp

\* C18: of two successive Check calls, the second, when made less than the
\* cache duration after the Timestamp of the first one's result, returns the
\* same result with the same Timestamp and pings nothing; made once the cache
\* duration has elapsed, it pings again and returns a new result whose
\* Timestamp is the time of that ping.
C18_CachedWithinDuration ==
    (hc.prev.obj # 0 /\ hc.last.obj # 0) =>
        /\ hc.last.at - TimestampOf(hc.prev) < hc.cacheDuration =>
               /\ hc.last.obj = hc.prev.obj
               /\ TimestampOf(hc.last) = TimestampOf(hc.prev)
               /\ ~hc.last.pinged
        /\ hc.last.at - TimestampOf(hc.prev) >= hc.cacheDuration =>
               /\ hc.last.pinged
               /\ hc.last.obj # hc.prev.obj
               /\ TimestampOf(hc.last) = hc.last.at
               /\ hc.cacheDuration > 0 => TimestampOf(hc.last) # TimestampOf(hc.prev)
        /\ hc.pings = Len(hc.objs) + hc.inflight

C18_Witness ==
    /\ hc.cacheDuration = 2
    /\ hc.prev.obj = 1 /\ hc.prev.pinged
    /\ hc.last.obj = 1 /\ ~hc.last.pinged
    /\ hc.last.at = TimestampOf(hc.prev) + 1
    /\ hc.pings = 1

\* C19: a health result is never mutated in place: once Check has returned a
\* HealthCheck, no later step (CheckWithCustomChecks included) changes the
\* Status, Message or Details of that object.
C19_ReturnedResultImmutable ==
    [][\A id \in 1..Len(hc.objs) :
          hc.objs[id].returned =>
              /\ hc.objs'[id].Status = hc.objs[id].Status
              /\ hc.objs'[id].Message = hc.objs[id].Message
              /\ hc.objs'[id].Details = hc.objs[id].Details]_vars

\* C20: when goroutines call Check concurrently on a stale cache, the fresh
\* evaluation is serialized: at most one ping is in flight at any time.
C20_OnePingInFlight == hc.inflight <= 1

\* C21: whenever the primary ping fails, the reported health status is
\* Unhealthy, whatever the pool statistics and the replica and pgxpool pings
\* say (kdbx CheckDetailed and dbx DB.Health).
C21_PingFailureIsUnhealthy ==
    (probe.fn # "none" /\ probe.pingFailed) => probe.Status = "unhealthy"

\* acquired/max > 0.8, and total/max > 0.8, for a pool with a limit
AcquiredAbove80(stats) ==
    stats.MaxConns > 0 /\ 10 * stats.AcquiredConns > 8 * stats.MaxConns
TotalAbove80(stats) ==
    stats.MaxConns > 0 /\ 10 * stats.TotalConns > 8 * stats.MaxConns
NoIdleUnderMax(stats) == stats.IdleConns = 0 /\ stats.TotalConns < stats.MaxConns

\* C22 (as stated): when the ping succeeds, CheckDetailed reports Degraded
\* whenever acquired/max > 0.8, and also whenever idle = 0 while total < max.
C22_DegradedOnPoolPressure ==
    (probe.fn = "CheckDetailed" /\ ~probe.pingFailed) =>
        /\ AcquiredAbove80(probe.stats) => probe.Status = "degraded"
        /\ NoIdleUnderMax(probe.stats) => probe.Status = "degraded"

\* C22 (amended): when the ping succeeds, CheckDetailed reports Degraded
\* exactly when total/max > 0.8 for a pool with max > 0, which covers every
\* case of acquired/max > 0.8; idle = 0 while total < max is listed among the
\* issues of the pool analysis and does not change the status.
C22_DegradedOnUtilization ==
    (probe.fn = "CheckDetailed" /\ ~probe.pingFailed) =>
        /\ AcquiredAbove80(probe.stats) => probe.Status = "degraded"
        /\ probe.Status = "degraded" <=> TotalAbove80(probe.stats)
        /\ probe.Status # "degraded" => probe.Status = "healthy"
        /\ NoIdleUnderMax(probe.stats) => "no idle connections" \in probe.issues

C22_Witness ==
    /\ probe.fn = "CheckDetailed" /\ ~probe.pingFailed
    /\ probe.stats = [AcquiredConns |-> 5, IdleConns |-> 0, TotalConns |-> 5,
                      MaxConns |-> 5]
    /\ probe.Status = "degraded"

\* the order of the statuses, from worst to best
StatusRank(status) ==
    CASE status = "unhealthy" -> 0
      [] status = "degraded" -> 1
      [] status = "healthy" -> 2

\* C23: custom checks can only downgrade: the status CheckWithCustomChecks
\* returns is never healthier than the status of the base check it started
\* from, and custom checks that all pass leave that status as it was, so that
\* Degraded and Unhealthy never become Healthy.
C23_CustomChecksOnlyDowngrade ==
    hc.custom.base # "none" =>
        /\ StatusRank(hc.custom.out) <= StatusRank(hc.custom.base)
        /\ ~hc.custom.hasErrors => hc.custom.out = hc.custom.base
        /\ hc.custom.base # "healthy" => hc.custom.out # "healthy"

C23_Witness ==
    /\ hc.custom.base = "degraded"
    /\ hc.custom.registered /\ ~hc.custom.hasErrors
    /\ hc.custom.out = "degraded"
    /\ Len(hc.objs) = 1

----------------------------------------------------------------------------
(* Properties of the savepoint functions and of the Tx handle *)

SavepointMethods == {"Savepoint", "RollbackToSavepoint", "ReleaseSavepoint"}

\* C24: Savepoint, RollbackToSavepoint, ReleaseSavepoint and NestedTransaction
\* validate the name before building any SQL: with a name that fails
\* validation no statement is executed on the transaction, the call returns an
\* error, and NestedTransaction does not invoke fn.
C24_InvalidNameRunsNothing ==
    /\ \A i \in 1..Len(sp.log) :
           sp.log[i].by # "fn" => validateSavepointName(sp.log[i].name) = Nil
    /\ validateSavepointName(sp.name) # Nil =>
           /\ sp.log = << >>
           /\ sp.fnCalls = 0 /\ sp.pc = "idle"
           /\ sp.op \in SavepointMethods \cup {"NestedTransaction"} => sp.ret # Nil

C24_Witness ==
    /\ sp.name = Name_sp_DROP
    /\ sp.op = "NestedTransaction" /\ sp.pc = "idle"
    /\ sp.ret # Nil
    /\ sp.log = << >> /\ sp.fnCalls = 0

\* the language of [A-Za-z_][A-Za-z0-9_]*
Letters == (65..90) \cup (97..122)
Digits == 48..57
MatchesIdentifier(name) ==
    /\ name # << >>
    /\ name[1] \in Letters \cup {95}
    /\ \A i \in 2..Len(name) : name[i] \in Letters \cup Digits \cup {95}

\* the error of a rejected name: the one error of these methods that carries
\* no code
IsNameError(err) == err # Nil /\ err[1].t = "plain"

\* C25: validateSavepointName accepts a name if and only if it matches
\* [A-Za-z_][A-Za-z0-9_]*: a savepoint method sends its statement exactly for
\* such names and answers every other name with the validation error; "",
\* "1abc", "sp; DROP TABLE users" and "sp-name" are rejected, "sp_1" and
\* "_tmp" accepted.
C25_AcceptsExactlyIdentifiers ==
    /\ validateSavepointName(sp.name) = Nil <=> MatchesIdentifier(sp.name)
    /\ sp.op \in SavepointMethods =>
           /\ IsNameError(sp.ret) <=> ~MatchesIdentifier(sp.name)
           /\ sp.log # << >> <=> MatchesIdentifier(sp.name)
           /\ sp.name \in {<< >>, Name_1abc, Name_sp_DROP, Name_sp_dash_name} =>
                  IsNameError(sp.ret)
           /\ sp.name \in {Name_sp_1, Name_tmp} => ~IsNameError(sp.ret)

C25_Witness ==
    /\ sp.name = Name_sp_1
    /\ sp.op = "Savepoint" /\ sp.ret = Nil
    /\ Len(sp.log) = 1 /\ sp.log[1].name = Name_sp_1 /\ ~sp.log[1].failed

\* the statements sent since the last call on the handle began, and those of
\* them NestedTransaction sent itself
CallLog == SubSeq(sp.log, sp.base + 1, Len(sp.log))
IsOwn(entry) == entry.by = "NestedTransaction"
OwnLog == SelectSeq(CallLog, IsOwn)

\* C26: NestedTransaction with a valid name sends SAVEPOINT before it invokes
\* fn and, once fn has returned, exactly one more command: ROLLBACK TO
\* SAVEPOINT if fn returned an error, RELEASE SAVEPOINT if it returned nil; it
\* never calls Commit or Rollback on the parent transaction, which is left in
\* the state it was in (open, if it was open).
C26_SavepointThenOneFollowUp ==
    (sp.op = "NestedTransaction" /\ validateSavepointName(sp.name) = Nil) =>
        /\ CallLog # << >>
        /\ CallLog[1] = OwnLog[1]
        /\ OwnLog[1].cmd = "SAVEPOINT " /\ OwnLog[1].name = sp.name
        /\ sp.fnOut \in {"none", "running", "panic"} => Len(OwnLog) = 1
        /\ sp.fnOut \in {"nil", "err"} =>
               /\ sp.pc = "idle"
               /\ Len(OwnLog) = 2
               /\ OwnLog[2] = CallLog[Len(CallLog)]
               /\ OwnLog[2].name = sp.name
               /\ OwnLog[2].cmd = IF sp.fnOut = "err" THEN "ROLLBACK TO SAVEPOINT "
                                   ELSE "RELEASE SAVEPOINT "
        /\ sp.commits + sp.rollbacks = sp.preCalls
        /\ sp.state = sp.pre

C26_Witness ==
    /\ sp.op = "NestedTransaction" /\ sp.name = Name_sp_1 /\ sp.pc = "idle"
    /\ sp.fnOut = "err" /\ sp.ret = AppError
    /\ Len(sp.log) = 3
    /\ sp.log[1].cmd = "SAVEPOINT " /\ sp.log[2].by = "fn"
    /\ sp.log[3].cmd = "ROLLBACK TO SAVEPOINT " /\ ~sp.log[3].failed
    /\ sp.state = "open" /\ sp.commits = 0 /\ sp.rollbacks = 0

\* C27: a failure of a savepoint command is never swallowed: if SAVEPOINT
\* fails, NestedTransaction returns a non-nil error without invoking fn; if
\* RELEASE SAVEPOINT or ROLLBACK TO SAVEPOINT fails, it returns a non-nil
\* classified error.
C27_SavepointFailureSurfaces ==
    (sp.op = "NestedTransaction" /\ sp.pc = "idle" /\ OwnLog # << >>) =>
        /\ OwnLog[1].failed =>
               /\ sp.ret # Nil /\ Classified(sp.ret)
               /\ sp.fnOut = "none" /\ Len(OwnLog) = 1
        /\ (Len(OwnLog) = 2 /\ OwnLog[2].failed) =>
               /\ sp.ret # Nil /\ Classified(sp.ret)

C27_Witness ==
    /\ sp.op = "NestedTransaction" /\ sp.pc = "idle"
    /\ sp.fnOut = "nil"
    /\ Len(OwnLog) = 2
    /\ OwnLog[2].cmd = "RELEASE SAVEPOINT " /\ OwnLog[2].failed
    /\ GetCode(sp.ret) = "CONFLICT"

\* a Commit or Rollback made on a handle already committed or rolled back
AfterFinalization ==
    sp.op \in {"Commit", "Rollback"} /\ sp.pre \in {"committed", "rolledback"}

\* C29 (as stated): on a kdbx Tx that has already been committed or rolled
\* back, a further Rollback or Commit is a no-op that returns nil.
C29_FinalizedCallsReturnNil ==
    AfterFinalization => (sp.ret = Nil /\ sp.state = sp.pre)

\* C29 (amended): on a kdbx Tx that has already been committed or rolled back,
\* a further Rollback is a no-op that returns nil; a further Commit changes
\* nothing on the transaction either, and returns a non-nil classified error
\* that wraps the driver's error for a finished transaction.
C29_FinalizedRollbackNilCommitError ==
    AfterFinalization =>
        /\ sp.state = sp.pre
        /\ sp.op = "Rollback" => sp.ret = Nil
        /\ sp.op = "Commit" =>
               /\ Classified(sp.ret)
               /\ Wraps(sp.ret, ClosedErr(sp.driver))

C29_Witness ==
    /\ sp.op = "Rollback" /\ sp.pre = "committed"
    /\ sp.ret = Nil
    /\ sp.state = "committed" /\ sp.commits = 1 /\ sp.rollbacks = 1

\* C28: no transaction helper finalizes a transaction more than once: on every
\* path, the Commit and Rollback calls a helper issues on a transaction it
\* began number at most one.
C28_FinalizedAtMostOnce == \A id \in TxIds : Finalizations(id) <= 1

----------------------------------------------------------------------------
(* Properties of the error classification *)

\* C30: classifying an error that is already classified returns its existing
\* kind: WrapError(WrapError(e, m1), m2) has the code of WrapError(e, m1), and
\* WrapError of a package sentinel such as ErrUniqueViolation has the code of
\* that sentinel.
C30_ClassifiedKeepsKind ==
    /\ ev.stage = 2 => GetCode(ev.w2) = GetCode(ev.w1)
    /\ (ev.stage >= 1 /\ ev.e \in PackageSentinels) =>
           GetCode(ev.w1) = GetCode(ev.e)

\* C31: an error chain that contains context.Canceled classifies as Cancelled
\* and one that contains context.DeadlineExceeded as Timeout, in kdbx
\* (WrapError) and in dbx (wrapDBError), also when a driver error with a
\* PostgreSQL or MySQL code is in the same chain.
C31_ContextKindFirst ==
    /\ (ev.stage >= 1 /\ ErrIs(ev.e, "canceled")) => GetCode(ev.w1) = "CANCELLED"
    /\ (ev.stage >= 1 /\ ErrIs(ev.e, "deadline")) => GetCode(ev.w1) = "TIMEOUT"
    /\ (ev.d # Nil /\ ErrIs(ev.e, "canceled")) => GetCode(ev.d) = "CANCELLED"
    /\ (ev.d # Nil /\ ErrIs(ev.e, "deadline")) => GetCode(ev.d) = "TIMEOUT"

\* the half of C31 about package kdbx alone
KdbxContextKindFirst ==
    /\ (ev.stage >= 1 /\ ErrIs(ev.e, "canceled")) => GetCode(ev.w1) = "CANCELLED"
    /\ (ev.stage >= 1 /\ ErrIs(ev.e, "deadline")) => GetCode(ev.w1) = "TIMEOUT"

\* the vendor code of the driver error in a chain, "" when there is none
DriverCode(err) ==
    IF ErrAs(err, "pg") # 0 THEN err[ErrAs(err, "pg")].code
    ELSE IF ErrAs(err, "mysql") # 0 THEN err[ErrAs(err, "mysql")].code
    ELSE ""

\* the kind the specification gives the class of a driver code
KindOfClass(code) ==
    CASE code \in {"23505", "1062"} -> "ALREADY_EXISTS"
      [] code \in {"40P01", "40001", "1213"} -> "CONFLICT"
      [] code \in {"08000", "08003", "08006"} -> "UNAVAILABLE"
      [] OTHER -> ""

\* the chain holds a driver error and no context error
DriverOnly(err) ==
    /\ KindOfClass(DriverCode(err)) # ""
    /\ ~ErrIs(err, "canceled") /\ ~ErrIs(err, "deadline")

\* C32: a driver error code resolves to the kind of its class, in kdbx
\* (WrapError) and in dbx (wrapDBError): 23505 and 1062 to AlreadyExists,
\* 40P01, 40001 and 1213 to Conflict, class 08 to Unavailable.
C32_DriverCodeKinds ==
    DriverOnly(ev.e) =>
        /\ ev.stage >= 1 => GetCode(ev.w1) = KindOfClass(DriverCode(ev.e))
        /\ ev.d # Nil => GetCode(ev.d) = KindOfClass(DriverCode(ev.e))

\* what does hold in kdbx: the unique-violation, deadlock and serialization
\* codes get the kind of their class
KdbxConstraintAndConflictKinds ==
    (DriverOnly(ev.e) /\ ev.stage >= 1 /\ KindOfClass(DriverCode(ev.e)) # "UNAVAILABLE")
        => GetCode(ev.w1) = KindOfClass(DriverCode(ev.e))

\* what does hold in dbx: class 08 is Unavailable
DbxConnectionKind ==
    (DriverOnly(ev.e) /\ ev.d # Nil /\ KindOfClass(DriverCode(ev.e)) = "UNAVAILABLE")
        => GetCode(ev.d) = "UNAVAILABLE"

----------------------------------------------------------------------------
(* Properties of the per-call retry override *)

ExhaustedMessage == "maximum retry attempts exceeded"

\* C33: a call of WithTransactionOptions with MaxRetries = n >= 0 runs with a
\* retry budget of n (at most n + 1 attempts, and exactly n + 1 when it gives
\* up with "maximum retry attempts exceeded"), the RetryAttempts of the
\* database's Config keeps the value it was built with, and a call of
\* WithTransaction, before or after, runs with that configured value.
C33_OverrideIsPerCall ==
    /\ cfgRetry = call.cfg0
    /\ (call.h = "KdbxWithTransactionOptions" /\ call.opt >= 0) =>
           /\ call.n = call.opt
           /\ Len(attempts) <= call.opt + 1 /\ fnCalls <= call.opt + 1
           /\ (result.k = "ret" /\ result.err # Nil
                 /\ result.err[1].msg = ExhaustedMessage) =>
                  Len(attempts) = call.opt + 1
    /\ call.h = "KdbxWithTransaction" => call.n = call.cfg0

\* a database configured without retries, a call that overrides the budget
\* with 2 and uses all of it
C33_Witness ==
    /\ call.h = "KdbxWithTransactionOptions" /\ call.opt = 2 /\ call.cfg0 = 0
    /\ Len(attempts) = 3 /\ fnCalls = 3
    /\ result.k = "ret" /\ result.err # Nil
    /\ result.err[1].msg = ExhaustedMessage
    /\ cfgRetry = 0

----------------------------------------------------------------------------
(* Properties of the dbx helpers *)

DbxHelpers == {"DbxWithTx", "DbxWithPgxTx"}

DbxReturnedNil == call.h \in DbxHelpers /\ result.k = "ret" /\ result.err = Nil

\* C34: when DB.WithTx or DB.WithPgxTx returns nil, fn was invoked at least
\* once and the transaction of its last invocation is committed, whatever
\* Config.MaxRetries is (0 and negative values included).
C34_DbxNilMeansCommitted ==
    DbxReturnedNil =>
        /\ fnCalls >= 1
        /\ txs # << >>
        /\ txs[Len(txs)].state = "committed"

\* what does hold: with a budget that lets the loop run at least once
\* (MaxRetries >= 0 for WithTx, >= 1 for WithPgxTx) nil means committed
DbxNilMeansCommittedWhenLoopRuns ==
    (DbxReturnedNil /\ call.n >= (IF call.h = "DbxWithTx" THEN 0 ELSE 1)) =>
        /\ fnCalls >= 1
        /\ txs # << >>
        /\ txs[Len(txs)].state = "committed"

----------------------------------------------------------------------------
(* Further properties of the circuit breaker *)

\* C35: while the breaker is Closed only consecutive failures count: a
\* successful Execute on a Closed breaker leaves the failure count at 0, and an
\* Execute that takes the breaker from Closed to Open ends a run of at least
\* maxFailures failing calls in a row.
C35_OnlyConsecutiveFailuresCount ==
    /\ (cbLog.op = "Execute" /\ cbLog.mid = "Closed" /\ cbLog.ret = "nil") =>
           cb.failures = 0
    /\ (cbLog.op = "Execute" /\ cbLog.pre = "Closed" /\ cb.state = "Open") =>
           cbLog.run >= cb.maxFailures

\* C36: with one caller and maxFailures >= 1, after every Execute and Reset:
\* an Open breaker has a failure count of at least maxFailures, a Closed
\* breaker has one below maxFailures, and the count is never negative.
C36_CountMatchesState ==
    /\ cb.state = "Open" => cb.failures >= cb.maxFailures
    /\ cb.state = "Closed" => cb.failures < cb.maxFailures
    /\ cb.failures >= 0

\* a breaker that opened at its threshold and was then Reset
C36_Witness ==
    /\ cbLog.op = "Reset" /\ cbLog.pre = "Open"
    /\ cb.maxFailures = 2 /\ cb.state = "Closed" /\ cb.failures = 0
    /\ cb.lastFailTime > ZeroTime

----------------------------------------------------------------------------
(* Further properties of the health cache *)

\* C37: under concurrent Check calls the cached check time never decreases: no
\* step replaces the cached result by one whose ping started earlier.
C37_CacheTimeNeverDecreases ==
    [][hc'.lastCheckTime >= hc.lastCheckTime]_vars

----------------------------------------------------------------------------
(* Further properties of NestedTransaction *)

NestedFnFailed == sp.op = "NestedTransaction" /\ sp.pc = "idle" /\ sp.fnOut = "err"

\* C38: when fn fails inside NestedTransaction, the error NestedTransaction
\* returns is fn's error or wraps it, also when the ROLLBACK TO SAVEPOINT that
\* follows fails.
C38_FnErrorSurvives ==
    NestedFnFailed => (sp.ret = sp.fnErr \/ Wraps(sp.ret, sp.fnErr))

\* what does hold: fn's error is returned as it is when the rollback to the
\* savepoint succeeds
FnErrorReturnedWhenRollbackSucceeds ==
    (NestedFnFailed /\ Len(OwnLog) = 2 /\ ~OwnLog[2].failed) => sp.ret = sp.fnErr

----------------------------------------------------------------------------
(* Properties of Shutdown *)

\* Shutdown has taken the ctx.Done() case and has not returned: it is inside
\* its own call of Close
WaitingForClose == sd.ctxTaken /\ sd.main \in {"blocked", "closing"}

\* C39: Shutdown honours its timeout: once it has seen its context done it
\* returns ctx.Err() and is never left waiting for a Close that is still in
\* progress.
C39_ShutdownHonoursTimeout ==
    /\ ~WaitingForClose
    /\ sd.ctxTaken => (sd.main = "returned" /\ sd.ret = ShutdownCtxErr(sd))

\* what does hold: when Shutdown returns, Close has ended
ShutdownReturnsAfterClose == sd.main = "returned" => sd.closed

----------------------------------------------------------------------------
(* Further properties of the backoff functions *)

\* C40: dbx calculateDelay returns without panicking for every attempt >= 0
\* and every initial delay >= 0, 0 included, under the exponential-jitter
\* strategy.
C40_CalculateDelayNeverPanics ==
    bk.fn = "calculateDelay" => ~bk.panicked

\* what does hold: calculateDelay panics exactly when the initial delay is 0
CalculateDelayPanicsOnlyAtZero ==
    bk.fn = "calculateDelay" => (bk.panicked <=> bk.initial = 0)

====
